---- MODULE Spec2Model ----
(***************************************************************************)
(* Model of packages/app/src/sandbox/eval/npm/fetch-npm-module.ts: the     *)
(* dependency resolver and content fetcher of the sandbox.                 *)
(*                                                                         *)
(* Representation.                                                         *)
(*  - A path string "/a/b/c" is the sequence of its segments <<"a","b",    *)
(*    "c">> (the text after the first "/" split at "/"), so "/" is <<"">>, *)
(*    "//empty.js" is <<"", "empty.js">> and string concatenation of two   *)
(*    such strings is concatenation of the sequences.                      *)
(*  - A version string is the sequence of its characters, so that the      *)
(*    regular expressions of the source are computed on it.                *)
(*  - A JS object used as a set of keys (Meta) is the set of its keys.     *)
(***************************************************************************)
EXTENDS Integers, Sequences, FiniteSets, TLC

VARIABLES
  proto,       \* getFetchProtocol under test: the arguments and the backend selected
  norm,        \* normalize / normalizeJSDelivr under test: inputs and both results
  retry,       \* one fetchWithRetries call: its locals, the clock and its history
  transpiledModules,  \* manager.transpiledModules: path -> the module's code
  dependencies,       \* <<a, b>>: module b is in module a's dependencies set
  initiators,         \* <<b, a>>: module a is in module b's initiators set
  manifest,           \* manager.manifest: dependencies and dependencyDependencies
  rs,                 \* one resolvePath / getDependencyVersion call under test
  metas,              \* the Metadata Cache: id -> promise
  packages,           \* the Content Cache: id -> promise
  normalizedMetas,    \* the PathSet cache: name + rootPath -> set of paths
  combinedMetas,      \* the combined existence index
  promises,           \* every promise the caches ever held, in creation order
  calls               \* the fetchModule calls

vars ==
  <<proto, norm, retry, transpiledModules, dependencies, initiators, manifest, rs,
    metas, packages, normalizedMetas, combinedMetas, promises, calls>>

cacheVars == <<metas, packages, normalizedMetas, combinedMetas, promises, calls>>

graphVars == <<transpiledModules, dependencies, initiators, manifest>>

\* The value of a component's variable in a specification that does not run it.
ProtoIdle == [pc |-> "off"]
NormIdle == [pc |-> "off"]
RetryIdle == [pc |-> "off"]
RsIdle == [pc |-> "off"]
CacheIdle ==
  /\ metas = <<>>
  /\ packages = <<>>
  /\ normalizedMetas = <<>>
  /\ combinedMetas = {}
  /\ promises = <<>>
  /\ calls = <<>>
GraphIdle ==
  /\ transpiledModules = <<>>
  /\ dependencies = {}
  /\ initiators = {}
  /\ manifest = [dependencies |-> <<>>, dependencyDependencies |-> <<>>]

(***************************************************************************)
(* Generic helpers                                                         *)
(***************************************************************************)
Range(s) == {s[i] : i \in DOMAIN s}

RECURSIVE SetToSeq(_)
SetToSeq(S) ==
  IF S = {} THEN <<>>
  ELSE LET x == CHOOSE y \in S : TRUE IN <<x>> \o SetToSeq(S \ {x})

RECURSIVE StrOf(_)
StrOf(cs) == IF cs = <<>> THEN "" ELSE Head(cs) \o StrOf(Tail(cs))

IsPrefix(p, s) == Len(p) <= Len(s) /\ SubSeq(s, 1, Len(p)) = p

Digits == {"0", "1", "2", "3", "4", "5", "6", "7", "8", "9"}

\* A pattern position that matches any character (the regular expression's ".").
AnyChar == "<any>"

MatchAt(s, i, pat) ==
  /\ i >= 1
  /\ i + Len(pat) - 1 <= Len(s)
  /\ \A k \in 1..Len(pat) : pat[k] = AnyChar \/ s[i + k - 1] = pat[k]

Contains(s, pat) == \E i \in 1..Len(s) : MatchAt(s, i, pat)

StartsWith(s, pat) == MatchAt(s, 1, pat)

(***************************************************************************)
(* Version strings                                                         *)
(***************************************************************************)
V_semver == <<"1", ".", "2", ".", "3">>
V_slug == <<"u", "/", "r">>
V_tag == <<"n", "e", "x", "t">>
V_draft ==
  <<"h", "t", "t", "p", "s", ":", "/", "/", "p", "k", "g", ".", "c", "s", "b",
    ".", "d", "e", "v", "/", "c">>
V_draftStaging ==
  <<"h", "t", "t", "p", "s", ":", "/", "/", "p", "k", "g", "-", "s", "t", "a",
    "g", "i", "n", "g", ".", "c", "s", "b", ".", "d", "e", "v", "/", "c">>
V_ghurl ==
  <<"h", "t", "t", "p", "s", ":", "/", "/", "g", "i", "t", "h", "u", "b", ".",
    "c", "o", "m", "/", "u", "/", "r">>
V_alias == <<"n", "p", "m", ":", "p", "k", "g", "@", "1", ".", "2", ".", "3">>

NamedVersions == {V_semver, V_slug, V_tag, V_draft, V_draftStaging, V_ghurl, V_alias}

\* Longest generated version string.
MaxVersionLen == 3

VersionAlphabet == {"1", ".", "/", "u"}

GeneratedVersions ==
  UNION {[1..n -> VersionAlphabet] : n \in 1..MaxVersionLen}

Versions == NamedVersions \cup GeneratedVersions

(***************************************************************************)
(* Backend protocols                                                       *)
(***************************************************************************)
\* /https:\/\/pkg(-staging)?\.csb.dev/ : the one unescaped "." matches any character.
DraftPattern ==
  <<"h", "t", "t", "p", "s", ":", "/", "/", "p", "k", "g", ".", "c", "s", "b",
    AnyChar, "d", "e", "v">>
DraftStagingPattern ==
  <<"h", "t", "t", "p", "s", ":", "/", "/", "p", "k", "g", "-", "s", "t", "a",
    "g", "i", "n", "g", ".", "c", "s", "b", AnyChar, "d", "e", "v">>

CSB_PKG_PROTOCOL(v) == Contains(v, DraftPattern) \/ Contains(v, DraftStagingPattern)

\* /\//.test(depVersion)
isGitHub(v) == Contains(v, <<"/">>)

Protocols == {"csbGH", "unpkg", "jsDelivrNPM", "jsDelivrGH"}

\* The normalizeMeta field of each protocol.
normalizeMetaOf(p) == IF p \in {"csbGH", "unpkg"} THEN "normalize" ELSE "normalizeJSDelivr"

getFetchProtocol_GitHubFirst(depVersion, useFallback) ==
  IF isGitHub(depVersion) THEN "jsDelivrGH"
  ELSE IF CSB_PKG_PROTOCOL(depVersion) THEN "csbGH"
  ELSE IF useFallback THEN "unpkg" ELSE "jsDelivrNPM"

getFetchProtocol(depVersion, useFallback) ==
  IF CSB_PKG_PROTOCOL(depVersion) THEN "csbGH"
  ELSE IF isGitHub(depVersion) THEN "jsDelivrGH"
  ELSE IF useFallback THEN "unpkg" ELSE "jsDelivrNPM"

(***************************************************************************)
(* Paths                                                                   *)
(***************************************************************************)
RECURSIVE NormalizeSegs(_, _)
NormalizeSegs(segs, acc) ==
  IF segs = <<>> THEN acc
  ELSE LET s == Head(segs) IN
    IF s = "" \/ s = "." THEN NormalizeSegs(Tail(segs), acc)
    ELSE IF s = ".." THEN
      NormalizeSegs(Tail(segs), IF acc = <<>> THEN acc ELSE SubSeq(acc, 1, Len(acc) - 1))
    ELSE NormalizeSegs(Tail(segs), Append(acc, s))

\* pathUtils.join on absolute paths: the parts joined by "/" and normalised.
pathJoin(a, b) ==
  LET n == NormalizeSegs(a \o b, <<>>) IN IF n = <<>> THEN <<"">> ELSE n

\* pathUtils.dirname of an absolute path.
pathDirname(p) == IF Len(p) <= 1 THEN <<"">> ELSE SubSeq(p, 1, Len(p) - 1)

(***************************************************************************)
(* Metadata normalisation                                                  *)
(***************************************************************************)
normalize_NoRecursion(files, fileObject, rootPath) ==
  fileObject \cup
    {rootPath \o files[i].path : i \in {j \in DOMAIN files : files[j].type = "file"}}

RECURSIVE normalize(_, _, _)
normalize(files, fileObject, rootPath) ==
  IF files = <<>> THEN fileObject
  ELSE LET f == Head(files)
           o1 == IF f.type = "file" THEN fileObject \cup {rootPath \o f.path}
                 ELSE fileObject
           o2 == IF f.files # <<>> THEN normalize(f.files, o1, rootPath) ELSE o1
       IN normalize(Tail(files), o2, rootPath)

RECURSIVE normalizeJSDelivr(_, _, _)
normalizeJSDelivr(files, fileObject, rootPath) ==
  IF files = <<>> THEN fileObject
  ELSE normalizeJSDelivr(Tail(files),
                         fileObject \cup {pathJoin(rootPath, Head(files).name)},
                         rootPath)

\* A backend's nested listing (unpkg ?meta, _csb-meta.json) of the file set F:
\* every entry carries its full path from the package root.
RECURSIVE TreeOf(_, _)
TreeOf(F, prefix) ==
  LET under == {f \in F : IsPrefix(prefix, f) /\ Len(f) > Len(prefix)}
      direct == {f \in under : Len(f) = Len(prefix) + 1}
      dirs == {SubSeq(f, 1, Len(prefix) + 1) : f \in under \ direct}
  IN SetToSeq({[path |-> f, type |-> "file", files |-> <<>>] : f \in direct}
        \cup {[path |-> d, type |-> "directory", files |-> TreeOf(F, d)] : d \in dirs})

\* jsDelivr's flat listing of the file set F.
FlatOf(F) == SetToSeq({[name |-> f] : f \in F})

PackageFiles ==
  { <<"index.js">>, <<"package.json">>, <<"lib", "x.js">>, <<"lib", "y.js">>,
    <<"lib", "sub", "z.js">> }

RootPaths ==
  { <<"node_modules", "pkg">>, <<"node_modules", "dep">>,
    <<"node_modules", "pkg", "node_modules", "dep">>, <<"src", "pkg">> }

(***************************************************************************)
(* fetchWithRetries                                                        *)
(***************************************************************************)
\* The spacing between two attempts, in milliseconds.
RetryDelay == 3000

\* The default of the retries parameter.
DefaultRetries == 6

\* Largest retries argument tried besides the default.
MaxRetriesArg == 3

\* How long one window.fetch may take, and how late a timer may fire (ms).
FetchDurations == {1, 2999, 3000, 3001}
TimerLateness == {0, 1}

\* Date.now() - lastTryTime < 3000
needsDelay(now, lastTryTime) == now - lastTryTime < RetryDelay

\* 3000 - (Date.now() - lastTryTime)
delayFor_SinceNothing(now, lastTryTime) == RetryDelay - (now - lastTryTime) - 1

delayFor(now, lastTryTime) == RetryDelay - (now - lastTryTime)

\* i === retries - 1
isLastTry_OffByOne(i, retries) == i = retries - 2

isLastTry(i, retries) == i = retries - 1

\* lastTryTime = Date.now(); doFetch()
StartAttempt(r) ==
  [r EXCEPT !.pc = "fetch", !.lastTryTime = r.now,
            !.starts = Append(r.starts, r.now)]

\* The head of the for loop, up to the first await of the iteration.
EnterIteration(r) ==
  IF r.i < r.retries
  THEN IF needsDelay(r.now, r.lastTryTime)
       THEN [r EXCEPT !.pc = "delay",
                      !.delayMs = delayFor(r.now, r.lastTryTime),
                      !.waits = Append(r.waits,
                                  [before |-> Len(r.starts) + 1,
                                   elapsed |-> r.now - r.lastTryTime,
                                   ms |-> delayFor(r.now, r.lastTryTime)])]
       ELSE StartAttempt(r)
  ELSE [r EXCEPT !.pc = "failed"]   \* throw new Error('Could not fetch')

RetryStart(retries, now) ==
  EnterIteration([pc |-> "loop", retries |-> retries, i |-> 0, lastTryTime |-> 0,
                  now |-> now, delayMs |-> 0, starts |-> <<>>, ends |-> <<>>,
                  outcomes |-> <<>>, waits |-> <<>>])

\* Date.now() is milliseconds since 1970: far above 3000 whenever the code runs.
RetryInit ==
  /\ \E n \in (0..MaxRetriesArg) \cup {DefaultRetries}, t \in {RetryDelay, 50000} :
       retry = RetryStart(n, t)
  /\ proto = ProtoIdle
  /\ norm = NormIdle
  /\ rs = RsIdle
  /\ GraphIdle
  /\ CacheIdle

\* await delay(ms): the timer fires after at least ms; the attempt starts at once.
DelayElapsed ==
  /\ retry.pc = "delay"
  /\ \E late \in TimerLateness :
       retry' = StartAttempt([retry EXCEPT !.now = retry.now + retry.delayMs + late])
  /\ UNCHANGED <<proto, norm, rs, graphVars, cacheVars>>

\* doFetch() resolves with an ok response: return it.
FetchOk ==
  /\ retry.pc = "fetch"
  /\ \E d \in FetchDurations :
       retry' = [retry EXCEPT !.pc = "returned", !.now = retry.now + d,
                              !.outcomes = Append(retry.outcomes, "ok"),
                              !.ends = Append(retry.ends, retry.now + d)]
  /\ UNCHANGED <<proto, norm, rs, graphVars, cacheVars>>

\* doFetch() rejects (network error, or a response that is not ok).
FetchFail ==
  /\ retry.pc = "fetch"
  /\ \E d \in FetchDurations :
       LET r == [retry EXCEPT !.now = retry.now + d,
                              !.outcomes = Append(retry.outcomes, "fail"),
                              !.ends = Append(retry.ends, retry.now + d)]
       IN retry' = IF isLastTry(r.i, r.retries)
                   THEN [r EXCEPT !.pc = "failed"]
                   ELSE EnterIteration([r EXCEPT !.i = r.i + 1])
  /\ UNCHANGED <<proto, norm, rs, graphVars, cacheVars>>

RetryNext == DelayElapsed \/ FetchOk \/ FetchFail

SpecRetry == RetryInit /\ [][RetryNext]_vars

(***************************************************************************)
(* Module contents, the module graph and the manifest                      *)
(***************************************************************************)
\* The path '//empty.js' that stands for a module stubbed out by a browser field.
EmptyJS == <<"", "empty.js">>

\* A file's code: a package.json that parses (its version, its entry point after
\* packageFilter, the requests its browser field maps to false), the text
\* '//empty.js', or any other text.
NoMain == <<>>
JsonCode(version, main, browser) ==
  [kind |-> "json", version |-> version, main |-> main, browser |-> browser]
EmptyCode == [kind |-> "empty", version |-> <<>>, main |-> NoMain, browser |-> {}]
TextCode == [kind |-> "text", version |-> <<>>, main |-> NoMain, browser |-> {}]

\* JSON.parse(code) throws unless the code is JSON.
jsonParses(code) == code.kind = "json"

\* The value of a versionInfo that is null.
NullInfo == [isNull |-> TRUE, version |-> <<>>, packageJSONPath |-> <<>>]
VersionInfo(version, packageJSONPath) ==
  [isNull |-> FALSE, version |-> version, packageJSONPath |-> packageJSONPath]

\* A string "https://..." as a version.
HttpsPrefix == <<"h", "t", "t", "p", "s", ":", "/", "/">>

NoLock == [exists |-> FALSE, semver |-> <<>>, resolved |-> <<>>]
Lock(semver, resolved) == [exists |-> TRUE, semver |-> semver, resolved |-> resolved]

\* manifest.dependencies.find(dep => dep.name === name)
rootDependency(mf, name) ==
  LET hits == {i \in DOMAIN mf.dependencies : mf.dependencies[i].name = name}
  IN IF hits = {} THEN [exists |-> FALSE, version |-> <<>>]
     ELSE [exists |-> TRUE,
           version |-> mf.dependencies[CHOOSE i \in hits : \A j \in hits : i <= j].version]

\* manifest.dependencyDependencies[name]
savedDepDep(mf, name) ==
  IF name \in DOMAIN mf.dependencyDependencies
  THEN mf.dependencyDependencies[name] ELSE NoLock

(***************************************************************************)
(* Dependency names                                                        *)
(***************************************************************************)
\* x.replace(/.*\/node_modules\//, ''): what follows the last "/node_modules/".
\* `absolute` tells whether x starts with "/" (a path) or not (a request).
afterNodeModules(x, absolute) ==
  LET at == {k \in 1..(Len(x) - 1) : x[k] = "node_modules" /\ (absolute \/ k > 1)}
  IN IF at = {} THEN x
     ELSE SubSeq(x, (CHOOSE k \in at : \A j \in at : j <= k) + 1, Len(x))

\* getDependencyName of a request without scope: its first part.
getDependencyName(x) == Head(x)

(***************************************************************************)
(* resolvePath: the resolver's view of the file system                     *)
(***************************************************************************)
\* The default of defaultExtensions.
defaultExtensions == <<"js", "jsx", "json", "mjs">>

isFile_GraphOnly(p, G, meta) == p \in DOMAIN G

\* Boolean(manager.transpiledModules[p]) || Boolean(meta[p])
isFile(p, G, meta) == p \in DOMAIN G \/ p \in meta

readFile_NoGuard(p, G, meta, failed) ==
  IF p \in DOMAIN G THEN "hit"
  ELSE IF p \in failed THEN "error"
  ELSE "async"

\* What readFile(p) does before any await: the graph's module ("hit"), the
\* ENOENT error for a path in neither the graph nor the metadata ("enoent"), or the
\* asynchronous branch ("async"), whose error, once it has failed, is the error
\* that resolveTranspiledModule threw ("error").
readFile(p, G, meta, failed) ==
  IF p \in DOMAIN G THEN "hit"
  ELSE IF p \notin DOMAIN G /\ p \notin meta THEN "enoent"
  ELSE IF p \in failed THEN "error"
  ELSE "async"

(***************************************************************************)
(* resolvePath: the resolution algorithm (browser-resolve)                 *)
(***************************************************************************)
NotFound == <<>>

\* The directories from dir up to the root, nearest first.
Ancestors(dir) == [i \in 1..(Len(dir) + 1) |-> SubSeq(dir, 1, Len(dir) + 1 - i)]

AddExtension(f, ext) == [f EXCEPT ![Len(f)] = @ \o "." \o ext]

\* The file itself, then the file with each extension, in order.
FileCandidates(f, exts) ==
  IF f = <<>> THEN <<>> ELSE <<f>> \o [i \in 1..Len(exts) |-> AddExtension(f, exts[i])]

LoadAsFile(f, exts, G, meta) ==
  LET c == FileCandidates(f, exts)
      ok == {i \in DOMAIN c : isFile(c[i], G, meta)}
  IN IF ok = {} THEN NotFound ELSE c[CHOOSE i \in ok : \A j \in ok : i <= j]

Found(path, reads) == [st |-> "found", path |-> path, reads |-> reads]
Miss(reads) == [st |-> "miss", path |-> NotFound, reads |-> reads]
ReadError(path, reads) == [st |-> "error", path |-> path, reads |-> reads]
Pending(path, reads) == [st |-> "async", path |-> path, reads |-> reads]

\* How deep a chain of package.json entry points is followed.
MaxMainDepth == 2

\* A directory: its package.json's entry point as a file, then as a directory,
\* then the directory's index.
RECURSIVE LoadAsDirectory(_, _, _, _, _, _, _)
LoadAsDirectory(d, exts, G, meta, failed, reads, depth) ==
  LET pj == d \o <<"package.json">>
      index == LoadAsFile(d \o <<"index">>, exts, G, meta)
      asIndex(rd) == IF index = NotFound THEN Miss(rd) ELSE Found(index, rd)
  IN IF ~isFile(pj, G, meta) THEN asIndex(reads)
     ELSE LET r == readFile(pj, G, meta, failed) IN
       IF r = "async" THEN Pending(pj, reads)
       ELSE IF r # "hit" THEN ReadError(pj, reads)
       ELSE LET rd == reads \cup {pj}
                main == IF jsonParses(G[pj]) THEN G[pj].main ELSE NoMain
                file == LoadAsFile(d \o main, exts, G, meta)
            IN IF main = NoMain \/ depth = 0 THEN asIndex(rd)
               ELSE IF file # NotFound THEN Found(file, rd)
               ELSE LET sub == LoadAsDirectory(d \o main, exts, G, meta, failed, rd,
                                               depth - 1)
                    IN IF sub.st = "miss" THEN asIndex(sub.reads) ELSE sub

\* The browser field of the nearest package.json above the requesting module;
\* a directory without a readable package.json (ENOENT) is skipped.
RECURSIVE LoadShims(_, _, _, _, _)
LoadShims(dirs, G, meta, failed, reads) ==
  IF dirs = <<>> THEN [st |-> "ok", shims |-> {}, path |-> NotFound, reads |-> reads]
  ELSE LET pj == Head(dirs) \o <<"package.json">>
           r == readFile(pj, G, meta, failed)
       IN IF r = "enoent" THEN LoadShims(Tail(dirs), G, meta, failed, reads)
          ELSE IF r = "async" THEN Pending(pj, reads) @@ [shims |-> {}]
          ELSE IF r = "error" \/ ~jsonParses(G[pj])
               THEN ReadError(pj, reads) @@ [shims |-> {}]
          ELSE [st |-> "ok", shims |-> G[pj].browser, path |-> pj,
                reads |-> reads \cup {pj}]

\* The lookup directories of a requesting directory: for each ancestor, nearest
\* first, its node_modules and its NODE_PATH directory (when one is configured).
moduleDirectory(nodePath) ==
  IF nodePath = "" THEN <<"node_modules">> ELSE <<"node_modules", nodePath>>

LookupDirs(base, nodePath) ==
  LET anc == Ancestors(base)
      md == moduleDirectory(nodePath)
  IN [i \in 1..(Len(anc) * Len(md)) |->
        anc[((i - 1) \div Len(md)) + 1] \o <<md[((i - 1) % Len(md)) + 1]>>]

RECURSIVE LoadNodeModules(_, _, _, _, _, _, _)
LoadNodeModules(x, dirs, exts, G, meta, failed, reads) ==
  IF dirs = <<>> THEN Miss(reads)
  ELSE LET target == Head(dirs) \o x
           file == LoadAsFile(target, exts, G, meta)
       IN IF file # NotFound THEN Found(file, reads)
          ELSE LET dir == LoadAsDirectory(target, exts, G, meta, failed, reads, MaxMainDepth)
               IN IF dir.st = "miss"
                  THEN LoadNodeModules(x, Tail(dirs), exts, G, meta, failed, dir.reads)
                  ELSE dir

\* resolve(path, {filename: currentPath, extensions, moduleDirectory, isFile,
\* readFile}) for a request that names a package: [st, path, reads], where reads
\* are the modules of the graph that readFile returned.
resolve(x, currentPath, exts, G, meta, failed, nodePath) ==
  LET base == SubSeq(currentPath, 1, Len(currentPath) - 1)
      sh == LoadShims(Ancestors(base), G, meta, failed, {})
  IN IF sh.st # "ok" THEN [st |-> sh.st, path |-> sh.path, reads |-> sh.reads]
     ELSE IF x \in sh.shims THEN Found(EmptyJS, sh.reads)
     ELSE LoadNodeModules(x, LookupDirs(base, nodePath), exts, G, meta, failed, sh.reads)

resolvePath(path, currentPath, exts, G, meta, failed, nodePath) ==
  resolve(path, currentPath, exts, G, meta, failed, nodePath)

(***************************************************************************)
(* getDependencyVersion                                                    *)
(***************************************************************************)
versionFallback_RootFirst(mf, dependencyName) ==
  LET saved == savedDepDep(mf, dependencyName)
      dep == rootDependency(mf, dependencyName)
      version == IF dep.exists THEN dep.version
                 ELSE IF saved.exists
                 THEN IF StartsWith(saved.semver, HttpsPrefix)
                      THEN saved.semver ELSE saved.resolved
                 ELSE <<>>
  IN IF version # <<>> THEN VersionInfo(version, <<>>) ELSE NullInfo

\* The part after the try block: the lock record, then the root manifest.
versionFallback(mf, dependencyName) ==
  LET saved == savedDepDep(mf, dependencyName)
      dep == rootDependency(mf, dependencyName)
      version == IF saved.exists
                 THEN IF StartsWith(saved.semver, HttpsPrefix)
                      THEN saved.semver ELSE saved.resolved
                 ELSE IF dep.exists THEN dep.version ELSE <<>>
  IN IF version # <<>> THEN VersionInfo(version, <<>>) ELSE NullInfo

getDependencyVersion_NoRootOverride(currentPath, exts, G, mf, dependencyName, nodePath) ==
  LET found == resolvePath(<<dependencyName, "package.json">>, currentPath, exts, G,
                           {}, {}, nodePath)
  IN IF found.st = "found" /\ found.path \in DOMAIN G /\ jsonParses(G[found.path])
     THEN [info |-> VersionInfo(G[found.path].version, found.path), reads |-> found.reads]
     ELSE [info |-> versionFallback(mf, dependencyName), reads |-> found.reads]

getDependencyVersion_NoLockUrl(currentPath, exts, G, mf, dependencyName, nodePath) ==
  LET found == resolvePath(<<dependencyName, "package.json">>, currentPath, exts, G,
                           {}, {}, nodePath)
      root == rootDependency(mf, dependencyName)
      fallback == [info |-> versionFallback(mf, dependencyName), reads |-> found.reads]
  IN IF found.st # "found" THEN fallback
     ELSE IF /\ found.path = pathJoin(<<"node_modules">>, <<dependencyName, "package.json">>)
             /\ root.exists
     THEN [info |-> VersionInfo(root.version, found.path), reads |-> found.reads]
     ELSE IF found.path \notin DOMAIN G \/ ~jsonParses(G[found.path]) THEN fallback
     ELSE [info |-> VersionInfo(G[found.path].version, found.path), reads |-> found.reads]

\* [info, reads]: the result, and the modules of the graph read on the way.
getDependencyVersion(currentPath, exts, G, mf, dependencyName, nodePath) ==
  LET found == resolvePath(<<dependencyName, "package.json">>, currentPath, exts, G,
                           {}, {}, nodePath)
      foundPackageJSONPath == found.path
      root == rootDependency(mf, dependencyName)
      saved == savedDepDep(mf, dependencyName)
      fallback == [info |-> versionFallback(mf, dependencyName), reads |-> found.reads]
  IN IF found.st # "found" THEN fallback
     ELSE IF /\ foundPackageJSONPath = pathJoin(<<"node_modules">>, <<dependencyName, "package.json">>)
             /\ root.exists
     THEN [info |-> VersionInfo(root.version, foundPackageJSONPath), reads |-> found.reads]
     ELSE IF foundPackageJSONPath \notin DOMAIN G THEN fallback
     ELSE LET packageJSON == G[foundPackageJSONPath] IN
       IF ~jsonParses(packageJSON) THEN fallback
       ELSE IF /\ saved.exists
               /\ saved.resolved = packageJSON.version
               /\ StartsWith(saved.semver, HttpsPrefix)
       THEN [info |-> VersionInfo(saved.semver, foundPackageJSONPath), reads |-> found.reads]
       ELSE [info |-> VersionInfo(packageJSON.version, foundPackageJSONPath),
             reads |-> found.reads]

(***************************************************************************)
(* Specification of getFetchProtocol on its own                            *)
(***************************************************************************)

ProtoInit ==
  /\ proto \in [pc : {"call"}, version : Versions, useFallback : BOOLEAN]
  /\ norm = NormIdle
  /\ retry = RetryIdle
  /\ rs = RsIdle
  /\ GraphIdle
  /\ CacheIdle

SelectProtocol ==
  /\ proto.pc = "call"
  /\ proto' = [pc |-> "done", version |-> proto.version,
               useFallback |-> proto.useFallback,
               result |-> getFetchProtocol(proto.version, proto.useFallback),
               other |-> getFetchProtocol(proto.version, ~proto.useFallback)]
  /\ UNCHANGED <<norm, retry, rs, graphVars, cacheVars>>

ProtoNext == SelectProtocol

SpecProtocol == ProtoInit /\ [][ProtoNext]_vars

(***************************************************************************)
(* Specification of the two normalisers on their own                       *)
(***************************************************************************)
NormInit ==
  /\ norm \in [pc : {"call"}, files : SUBSET PackageFiles, rootPath : RootPaths]
  /\ proto = ProtoIdle
  /\ retry = RetryIdle
  /\ rs = RsIdle
  /\ GraphIdle
  /\ CacheIdle

Normalize ==
  /\ norm.pc = "call"
  /\ norm' = [pc |-> "done", files |-> norm.files, rootPath |-> norm.rootPath,
              fromTree |-> normalize(TreeOf(norm.files, <<>>), {}, norm.rootPath),
              fromFlat |-> normalizeJSDelivr(FlatOf(norm.files), {}, norm.rootPath)]
  /\ UNCHANGED <<proto, retry, rs, graphVars, cacheVars>>

NormNext == Normalize

SpecNormalize == NormInit /\ [][NormNext]_vars

(***************************************************************************)
(* Specification of resolvePath and getDependencyVersion on their own      *)
(***************************************************************************)
V_other == <<"2", ".", "0", ".", "0">>
V_range == <<"^", "1", ".", "0", ".", "0">>

PkgRoot == <<"node_modules", "pkg">>
PkgJson == <<"node_modules", "pkg", "package.json">>
NestedPkgJson == <<"node_modules", "host", "node_modules", "pkg", "package.json">>
PkgIndex == <<"node_modules", "pkg", "index.js">>
PkgLibX == <<"node_modules", "pkg", "lib", "x.js">>
PkgLibY == <<"node_modules", "pkg", "lib", "y.js">>

\* The sandbox's own modules, and a dependency that is already loaded.
SandboxModules ==
  [p \in { <<"index.js">>, <<"package.json">>, <<"node_modules", "host", "index.js">> }
     |-> IF p = <<"package.json">> THEN JsonCode(V_other, NoMain, {}) ELSE TextCode]

Requesters == { <<"index.js">>, <<"node_modules", "host", "index.js">> }

\* The paths a resolution of "pkg" or "pkg/lib/x" may find in the metadata.
MetaCandidates ==
  { PkgIndex, PkgLibX, PkgLibY, PkgJson,
    <<"node_modules", "pkg", "lib", "x.json">>,
    <<"node_modules", "pkg", "lib", "x", "index.js">>,
    <<"node_modules", "pkg.js">> }

PackageJsonCodes ==
  { JsonCode(V_semver, NoMain, {}), JsonCode(V_other, NoMain, {}),
    JsonCode(V_semver, <<"lib", "y.js">>, {}), EmptyCode, TextCode }

\* Graphs: the sandbox's modules and, or not, package.json files of pkg.
GraphsWith(rootJson, nestedJson) ==
  SandboxModules
    @@ (IF rootJson = {} THEN <<>> ELSE [p \in {PkgJson} |-> CHOOSE c \in rootJson : TRUE])
    @@ (IF nestedJson = {} THEN <<>>
        ELSE [p \in {NestedPkgJson} |-> CHOOSE c \in nestedJson : TRUE])

Graphs ==
  {GraphsWith(r, n) : r \in {{}} \cup {{c} : c \in PackageJsonCodes},
                      n \in {{}, {JsonCode(V_other, NoMain, {})}}}

Manifests ==
  [dependencies : {<<>>} \cup {<<[name |-> "pkg", version |-> v]>> : v \in {V_semver, V_draft}},
   dependencyDependencies :
     {<<>>} \cup {[n \in {"pkg"} |-> l] :
                    l \in {Lock(V_draft, V_semver), Lock(V_range, V_semver),
                           Lock(V_draft, V_other)}}]

ResolveInit ==
  /\ transpiledModules \in Graphs
  /\ manifest \in Manifests
  /\ dependencies = {}
  /\ initiators = {}
  /\ \/ rs \in [pc : {"call"}, op : {"getDependencyVersion"}, from : Requesters,
                dependencyName : {"pkg"}, nodePath : {""}]
     \/ /\ rs \in [pc : {"call"}, op : {"resolvePath"}, from : {<<"index.js">>},
                   path : { <<"pkg">>, <<"pkg", "lib", "x">> },
                   meta : SUBSET MetaCandidates, nodePath : {"", "vendor"}]
        /\ manifest.dependencies = <<>>
        /\ manifest.dependencyDependencies = <<>>
        /\ NestedPkgJson \notin DOMAIN transpiledModules
  /\ proto = ProtoIdle
  /\ norm = NormIdle
  /\ retry = RetryIdle
  /\ CacheIdle

addEdges_DependenciesOnly(from, reads) ==
  /\ initiators' = initiators
  /\ dependencies' = dependencies \cup {<<from, p>> : p \in reads}

\* readFile on a module of the graph: tModule.initiators.add(currentTModule);
\* currentTModule.dependencies.add(tModule).
addEdges(from, reads) ==
  /\ initiators' = initiators \cup {<<p, from>> : p \in reads}
  /\ dependencies' = dependencies \cup {<<from, p>> : p \in reads}

ApplyGetDependencyVersion ==
  /\ rs.pc = "call"
  /\ rs.op = "getDependencyVersion"
  /\ LET r == getDependencyVersion(rs.from, defaultExtensions, transpiledModules,
                                   manifest, rs.dependencyName, rs.nodePath)
     IN /\ rs' = [pc |-> "done", op |-> rs.op, from |-> rs.from,
                  dependencyName |-> rs.dependencyName, info |-> r.info,
                  found |-> resolvePath(<<rs.dependencyName, "package.json">>, rs.from,
                                        defaultExtensions, transpiledModules, {}, {},
                                        rs.nodePath)]
        /\ addEdges(rs.from, r.reads)
  /\ UNCHANGED <<proto, norm, retry, transpiledModules, manifest, cacheVars>>

ApplyResolvePath ==
  /\ rs.pc = "call"
  /\ rs.op = "resolvePath"
  /\ LET r == resolvePath(rs.path, rs.from, defaultExtensions, transpiledModules,
                          rs.meta, {}, rs.nodePath)
     IN /\ rs' = [pc |-> "done", op |-> rs.op, from |-> rs.from, path |-> rs.path,
                  meta |-> rs.meta, result |-> r]
        /\ addEdges(rs.from, r.reads)
  /\ UNCHANGED <<proto, norm, retry, transpiledModules, manifest, cacheVars>>

ResolveNext == ApplyGetDependencyVersion \/ ApplyResolvePath

SpecResolve == ResolveInit /\ [][ResolveNext]_vars

(***************************************************************************)
(* The caches and their promises                                           *)
(***************************************************************************)
\* "/a/b" for <<"a", "b">>.
RECURSIVE PathStr(_)
PathStr(p) == IF p = <<>> THEN "" ELSE "/" \o Head(p) \o PathStr(Tail(p))

\* /^npm:(.+)@(.+)/ : the name runs to the last "@" that leaves both parts non-empty.
AliasPrefix == <<"n", "p", "m", ":">>

resolveNPMAlias_Identity(name, version) ==
  [ok |-> TRUE, name |-> name, version |-> version]

resolveNPMAlias(name, version) ==
  IF ~StartsWith(version, AliasPrefix)
  THEN [ok |-> TRUE, name |-> name, version |-> version]
  ELSE LET at == {k \in 6..(Len(version) - 1) : version[k] = "@"}
       IN IF at = {} THEN [ok |-> FALSE, name |-> name, version |-> version]
          ELSE LET k == CHOOSE i \in at : \A j \in at : j <= i
               IN [ok |-> TRUE, name |-> StrOf(SubSeq(version, 5, k - 1)),
                   version |-> SubSeq(version, k + 1, Len(version))]

\* `${packageJSONPath || depName}@${depVersion}`
metaId(depName, packageJSONPath, depVersion) ==
  (IF packageJSONPath # <<>> THEN PathStr(packageJSONPath) ELSE depName)
    \o "@" \o StrOf(depVersion)

\* depName + depVersion + path
packageId(depName, depVersion, path) == depName \o StrOf(depVersion) \o PathStr(path)

\* /^\d/.test(version)
startsWithDigit(version) == version # <<>> /\ version[1] \in Digits

\* path.replace(new RegExp(`.*/node_modules/${depName}`), ''): the path inside the package.
relativePath(path, depName) ==
  LET at == {k \in 1..(Len(path) - 1) : path[k] = "node_modules" /\ path[k + 1] = depName}
  IN IF at = {} THEN path
     ELSE SubSeq(path, (CHOOSE k \in at : \A j \in at : j <= k) + 2, Len(path))

NoPromise == 0

Request(to, what, name, version, path) ==
  [to |-> to, what |-> what, name |-> name, version |-> version, path |-> path]

NoValue == [format |-> "none", files |-> {}, code |-> TextCode]

\* A promise stored in packages: the download of one file, first through
\* getFetchProtocol(depVersion), then through getFetchProtocol(depVersion, true).
ContentPromise(key, name, version, path) ==
  [kind |-> "content", key |-> key, st |-> "pending", stage |-> "primary",
   protocol |-> getFetchProtocol(version, FALSE), name |-> name, version |-> version,
   path |-> path, wait |-> NoPromise,
   sent |-> <<Request(getFetchProtocol(version, FALSE), "file", name, version,
                      relativePath(path, name))>>,
   value |-> NoValue]

downloadDependency_NoCache(S, name, version, path) ==
  LET a == resolveNPMAlias(name, version)
      id == packageId(a.name, a.version, path)
      p == Len(S.promises) + 1
  IN [S |-> [S EXCEPT !.packages = (id :> p) @@ S.packages,
                      !.promises = Append(S.promises,
                                          ContentPromise(id, a.name, a.version, path))],
      p |-> p, created |-> {p}]

\* downloadDependency(name, version, path) on the store S = [metas, packages,
\* promises]: the store after the call, the promise returned, the promises created.
downloadDependency(S, name, version, path) ==
  LET a == resolveNPMAlias(name, version)
      id == packageId(a.name, a.version, path)
      p == Len(S.promises) + 1
  IN IF id \in DOMAIN S.packages
     THEN [S |-> S, p |-> S.packages[id], created |-> {}]
     ELSE [S |-> [S EXCEPT !.packages = (id :> p) @@ S.packages,
                         !.promises = Append(S.promises,
                                             ContentPromise(id, a.name, a.version, path))],
           p |-> p, created |-> {p}]

\* A promise stored in metas. protocol.meta(name, version) first builds the URL:
\* at once (csbGH, unpkg, jsDelivrNPM with a numeric version), after the download
\* of /package.json (jsDelivrNPM with a tag), or after asking GitHub for the sha.
MetaPromise(key, protocol, name, version, stage, wait, sent) ==
  [kind |-> "meta", key |-> key, st |-> "pending", stage |-> stage,
   protocol |-> protocol, name |-> name, version |-> version, path |-> <<>>,
   wait |-> wait, sent |-> sent, value |-> NoValue]

startMeta(S, id, protocol, name, version) ==
  LET p == Len(S.promises) + 1
      put(T, prom) == [T EXCEPT !.metas = (id :> Len(T.promises) + 1) @@ T.metas,
                                !.promises = Append(T.promises, prom)]
  IN IF protocol = "jsDelivrNPM" /\ ~startsWithDigit(version)
     THEN LET d == downloadDependency(S, name, version, <<"package.json">>)
          IN [S |-> put(d.S, MetaPromise(id, protocol, name, version, "pkgjson", d.p, <<>>)),
              p |-> Len(d.S.promises) + 1,
              created |-> d.created \cup {Len(d.S.promises) + 1}]
     ELSE IF protocol = "jsDelivrGH"
     THEN [S |-> put(S, MetaPromise(id, protocol, name, version, "sha", NoPromise,
                          <<Request("api.github.com", "sha", name, version, <<>>)>>)),
           p |-> p, created |-> {p}]
     ELSE [S |-> put(S, MetaPromise(id, protocol, name, version, "fetch", NoPromise,
                          <<Request(protocol, "meta", name, version, <<>>)>>)),
           p |-> p, created |-> {p}]

getMeta_NoCache(S, name, packageJSONPath, version, useFallback) ==
  LET a == resolveNPMAlias(name, version)
  IN startMeta(S, metaId(a.name, packageJSONPath, a.version),
               getFetchProtocol(a.version, useFallback), a.name, a.version)

\* getMeta(name, packageJSONPath, version, useFallback) on the store S.
getMeta(S, name, packageJSONPath, version, useFallback) ==
  LET a == resolveNPMAlias(name, version)
      id == metaId(a.name, packageJSONPath, a.version)
  IN IF id \in DOMAIN S.metas
     THEN [S |-> S, p |-> S.metas[id], created |-> {}]
     ELSE startMeta(S, id, getFetchProtocol(a.version, useFallback), a.name, a.version)

\* delete metas[id]
deleteKey(f, id) == [k \in DOMAIN f \ {id} |-> f[k]]

(***************************************************************************)
(* The sandbox of the concurrent specification                             *)
(***************************************************************************)
\* Concurrent fetchModule calls.
NumCalls == 2

Calls == 1..NumCalls

HostIndex == <<"node_modules", "host", "index.js">>
HostJson == <<"node_modules", "host", "package.json">>

\* The root manifest: pkg pinned to a number, tagged declared by a dist-tag, gh by
\* a GitHub slug.
MainManifest ==
  [dependencies |-> << [name |-> "pkg", version |-> V_semver],
                       [name |-> "tagged", version |-> V_tag],
                       [name |-> "gh", version |-> V_slug] >>,
   dependencyDependencies |-> <<>>]

\* The modules loaded before any fetch: the sandbox's own, and the dependency
\* host, whose browser field maps the request "tagged" to false.
MainModules ==
  ( <<"index.js">> :> TextCode ) @@ ( <<"package.json">> :> JsonCode(V_other, NoMain, {}) )
    @@ ( HostIndex :> TextCode )
    @@ ( HostJson :> JsonCode(V_other, NoMain, { <<"tagged">> }) )

\* What fetchModule is asked for: the request and the requesting module.
Requests ==
  { [path |-> <<"pkg">>, from |-> <<"index.js">>],
    [path |-> <<"tagged">>, from |-> HostIndex],
    [path |-> <<"gh">>, from |-> <<"index.js">>],
    [path |-> <<"unknown">>, from |-> <<"index.js">>] }

\* What the backends hold of each package: its files and their code.
RemoteFiles(name) ==
  IF name = "pkg" THEN { <<"package.json">>, <<"index.js">>, <<"lib", "x.js">> }
  ELSE { <<"package.json">>, <<"index.js">> }

RemoteCode(rel) ==
  IF rel = <<"package.json">> THEN JsonCode(V_semver, NoMain, {}) ELSE TextCode

\* The document a backend answers a metadata request with.
MetaDocument(protocol, name) ==
  [format |-> IF normalizeMetaOf(protocol) = "normalize" THEN "tree" ELSE "flat",
   files |-> RemoteFiles(name), code |-> TextCode]

\* normalizeFunction(meta.files, {}, rootPath). The nested normaliser finds no
\* entry of type 'file' in a flat list; the flat normaliser finds no name in a
\* nested entry and pathUtils.join throws.
applyNormalize(normalizeFunction, doc, rootPath) ==
  IF normalizeFunction = "normalize"
  THEN [ok |-> TRUE,
        meta |-> IF doc.format = "tree"
                 THEN normalize(TreeOf(doc.files, <<>>), {}, rootPath) ELSE {}]
  ELSE IF doc.format = "flat"
       THEN [ok |-> TRUE, meta |-> normalizeJSDelivr(FlatOf(doc.files), {}, rootPath)]
       ELSE [ok |-> doc.files = {}, meta |-> {}]

StubCode == [kind |-> "module.exports = {};", version |-> <<>>, main |-> NoMain,
             browser |-> {}]

NoResult == [path |-> <<>>, code |-> TextCode, requires |-> <<>>, stubbed |-> FALSE,
             downloaded |-> FALSE]

\* A fetchModule call: its position, its arguments and locals, what it returned or
\* threw, and (history) the promises it created and how it obtained the file.
IdleCall ==
  [pc |-> "idle", path |-> <<>>, from |-> <<>>, dependencyName |-> "", version |-> <<>>,
   packageJSONPath |-> <<>>, normalizeFunction |-> "", await |-> NoPromise,
   reading |-> <<>>, meta |-> {}, failed |-> {}, result |-> NoResult, error |-> "",
   created |-> {}, metaGot |-> <<>>, fileGot |-> NoPromise, foundPath |-> <<>>]

(***************************************************************************)
(* fetchModule and the readFile of its resolvePath                         *)
(***************************************************************************)
Store == [metas |-> metas, packages |-> packages, promises |-> promises]

SetStore(S) ==
  /\ metas' = S.metas
  /\ packages' = S.packages
  /\ promises' = S.promises

Fail(cr, error) == [cr EXCEPT !.pc = "failed", !.error = error, !.await = NoPromise]

\* The path of a stubbed module: the request under /node_modules (every request
\* of the sandbox names a package, so /^(\w|@\w|@-)/ matches it).
stubPath(path, currentPath) == pathJoin(<<"node_modules">>, path)

fetchModuleDownload(cr, d) ==
  [call |-> [cr EXCEPT !.pc = "awaitFile", !.await = d.p, !.fileGot = d.p,
                       !.created = @ \cup d.created],
   S |-> d.S]

fetchModuleTail_AlwaysDownload(cr, foundPath, S) ==
  fetchModuleDownload(cr, downloadDependency(S, cr.dependencyName, cr.version, foundPath))

\* fetchModule from the end of resolvePath: the stub for '//empty.js', else
\* downloadDependency(dependencyName, version, foundPath).
fetchModuleTail(cr, foundPath, S) ==
  IF foundPath = EmptyJS
  THEN [call |-> [cr EXCEPT !.pc = "done", !.await = NoPromise,
                            !.result = [path |-> stubPath(cr.path, cr.from),
                                        code |-> StubCode, requires |-> <<>>,
                                        stubbed |-> TRUE, downloaded |-> FALSE]],
        S |-> S]
  ELSE fetchModuleDownload(cr, downloadDependency(S, cr.dependencyName, cr.version,
                                                  foundPath))

\* readFile waits for downloadDependency(depName, version, p).
fetchModuleRead(cr, p, d, reads) ==
  [call |-> [cr EXCEPT !.pc = "awaitRead", !.await = d.p, !.reading = p,
                       !.created = @ \cup d.created],
   S |-> d.S, reads |-> reads]

\* resolvePath(path, currentTModule, manager, defaultExtensions, normalizedMeta) up
\* to the point where the call waits for a download or ends, and what follows it
\* in fetchModule. A readFile of a path that only the metadata has resolves the
\* version of the path's dependency and downloads the file; without a version it
\* hands the resolver its error. [call, S, reads].
RECURSIVE runResolve(_, _, _, _)
RECURSIVE readFileDownload(_, _, _, _, _, _, _)

\* readFile's callback path: subDepVersionVersionInfo is null, or the download.
readFileDownload(cr, G, S, reads, p, depName, info) ==
  IF info.isNull
  THEN runResolve([cr EXCEPT !.failed = @ \cup {p}], G, S, reads)
  ELSE fetchModuleRead(cr, p, downloadDependency(S, depName, info.version, p), reads)

readFileVersionInfo(cr, G, S, p, depName, sub, reads) ==
  readFileDownload(cr, G, S, reads \cup sub.reads, p, depName, sub.info)

readFileVersion(cr, G, S, reads, p, depName) ==
  readFileVersionInfo(cr, G, S, p, depName,
                      getDependencyVersion(cr.from, defaultExtensions, G, manifest,
                                           depName, ""), reads)

afterResolvePath(cr, G, S, reads, r) ==
  IF r.st = "found"
  THEN fetchModuleTail([cr EXCEPT !.foundPath = r.path], r.path, S)
         @@ [reads |-> reads \cup r.reads]
  ELSE IF r.st = "miss"
  THEN [call |-> Fail(cr, "ResolutionMiss"), S |-> S, reads |-> reads \cup r.reads]
  ELSE IF r.st = "error"
  THEN [call |-> Fail(cr, "ReadError"), S |-> S, reads |-> reads \cup r.reads]
  ELSE readFileVersion(cr, G, S, reads \cup r.reads, r.path,
                       getDependencyName(afterNodeModules(r.path, TRUE)))

runResolve(cr, G, S, reads) ==
  afterResolvePath(cr, G, S, reads,
                   resolvePath(cr.path, cr.from, defaultExtensions, G, cr.meta,
                               cr.failed, ""))

FetchModuleVersion_NoNullCheck(c, req, dependencyName, v) ==
  /\ calls' = [calls EXCEPT ![c] =
       [@ EXCEPT !.path = req.path, !.from = req.from,
                 !.dependencyName = dependencyName,
                 !.pc = "getMeta", !.version = v.info.version,
                 !.packageJSONPath = v.info.packageJSONPath]]
  /\ addEdges(req.from, v.reads)

\* fetchModule(path, currentTModule, manager) up to getDependencyVersion's result.
\* Calls are numbered in the order of their invocation.
FetchModuleVersion(c, req, dependencyName, v) ==
  /\ calls' = [calls EXCEPT ![c] =
       IF v.info.isNull
       THEN Fail([@ EXCEPT !.path = req.path, !.from = req.from,
                           !.dependencyName = dependencyName], "DependencyNotFound")
       ELSE [@ EXCEPT !.path = req.path, !.from = req.from,
                      !.dependencyName = dependencyName,
                      !.pc = "getMeta", !.version = v.info.version,
                      !.packageJSONPath = v.info.packageJSONPath]]
  /\ addEdges(req.from, v.reads)

FetchModule(c, req) ==
  /\ calls[c].pc = "idle"
  /\ \A b \in Calls : b < c => calls[b].pc # "idle"
  /\ FetchModuleVersion(c, req, getDependencyName(afterNodeModules(req.path, FALSE)),
                        getDependencyVersion(req.from, defaultExtensions,
                          transpiledModules, manifest,
                          getDependencyName(afterNodeModules(req.path, FALSE)), ""))
  /\ UNCHANGED <<proto, norm, retry, rs, transpiledModules, manifest, metas, packages,
                 normalizedMetas, combinedMetas, promises>>

FetchModuleGetMeta_NoException(c) ==
  /\ calls[c].pc = "getMeta"
  /\ LET cr == calls[c]
         m == getMeta(Store, cr.dependencyName, cr.packageJSONPath, cr.version, FALSE)
     IN /\ calls' = [calls EXCEPT ![c] =
                       [cr EXCEPT !.pc = "awaitMeta",
                                  !.normalizeFunction =
                                     normalizeMetaOf(getFetchProtocol(cr.version, FALSE)),
                                  !.await = m.p,
                                  !.metaGot = Append(@, m.p),
                                  !.created = @ \cup m.created]]
        /\ SetStore(m.S)
  /\ UNCHANGED <<proto, norm, retry, rs, graphVars, normalizedMetas, combinedMetas>>

\* The try block: getMeta through the selected backend, or at once through the
\* fallback for d3-interpolate.
FetchModuleGetMeta(c) ==
  /\ calls[c].pc = "getMeta"
  /\ LET cr == calls[c]
         forced == cr.dependencyName = "d3-interpolate"
         m == getMeta(Store, cr.dependencyName, cr.packageJSONPath, cr.version, forced)
     IN /\ calls' = [calls EXCEPT ![c] =
                       [cr EXCEPT !.pc = IF forced THEN "awaitMetaFallback" ELSE "awaitMeta",
                                  !.normalizeFunction =
                                     IF forced THEN @
                                     ELSE normalizeMetaOf(getFetchProtocol(cr.version, FALSE)),
                                  !.await = m.p,
                                  !.metaGot = Append(@, m.p),
                                  !.created = @ \cup m.created]]
        /\ SetStore(m.S)
  /\ UNCHANGED <<proto, norm, retry, rs, graphVars, normalizedMetas, combinedMetas>>

FetchModuleMetaRejected_NoRetry(c) ==
  /\ calls[c].pc \in {"awaitMeta", "awaitMetaFallback"}
  /\ promises[calls[c].await].st = "rejected"
  /\ calls' = [calls EXCEPT ![c] = Fail(calls[c], "NetworkFailure")]
  /\ UNCHANGED <<proto, norm, retry, rs, graphVars, metas, packages, promises,
                 normalizedMetas, combinedMetas>>

\* The awaited getMeta promise rejects: the fallback getMeta, or the call's failure.
FetchModuleMetaRejected(c) ==
  /\ calls[c].pc \in {"awaitMeta", "awaitMetaFallback"}
  /\ promises[calls[c].await].st = "rejected"
  /\ LET cr == calls[c]
         m == getMeta(Store, cr.dependencyName, cr.packageJSONPath, cr.version, TRUE)
     IN IF cr.pc = "awaitMeta"
        THEN /\ calls' = [calls EXCEPT ![c] =
                            [cr EXCEPT !.pc = "awaitMetaFallback", !.await = m.p,
                                       !.metaGot = Append(@, m.p),
                                       !.created = @ \cup m.created]]
             /\ SetStore(m.S)
        ELSE /\ calls' = [calls EXCEPT ![c] = Fail(cr, "NetworkFailure")]
             /\ UNCHANGED <<metas, packages, promises>>
  /\ UNCHANGED <<proto, norm, retry, rs, graphVars, normalizedMetas, combinedMetas>>

\* The call goes on from resolvePath's outcome.
Resume(c, from, run) ==
  /\ calls' = [calls EXCEPT ![c] = run.call]
  /\ SetStore(run.S)
  /\ addEdges(from, run.reads)

FetchModuleNormalized_Overwrite(c, cr, normalizeFunction, normalizedCacheKey, cached, fresh) ==
  IF ~cached /\ ~fresh.ok
  THEN /\ calls' = [calls EXCEPT ![c] = Fail(cr, "TypeError")]
       /\ UNCHANGED <<metas, packages, promises, normalizedMetas, combinedMetas,
                      dependencies, initiators>>
  ELSE /\ normalizedMetas' =
            IF cached THEN normalizedMetas
            ELSE (normalizedCacheKey :> fresh.meta) @@ normalizedMetas
       /\ combinedMetas' = normalizedMetas'[normalizedCacheKey]
       /\ Resume(c, cr.from,
                 runResolve([cr EXCEPT !.normalizeFunction = normalizeFunction,
                                       !.meta = normalizedMetas'[normalizedCacheKey]],
                            transpiledModules, Store, {}))

FetchModuleNormalized_NoMerge(c, cr, normalizeFunction, normalizedCacheKey, cached, fresh) ==
  IF ~cached /\ ~fresh.ok
  THEN /\ calls' = [calls EXCEPT ![c] = Fail(cr, "TypeError")]
       /\ UNCHANGED <<metas, packages, promises, normalizedMetas, combinedMetas,
                      dependencies, initiators>>
  ELSE /\ normalizedMetas' =
            IF cached THEN normalizedMetas
            ELSE (normalizedCacheKey :> fresh.meta) @@ normalizedMetas
       /\ combinedMetas' = combinedMetas
       /\ Resume(c, cr.from,
                 runResolve([cr EXCEPT !.normalizeFunction = normalizeFunction,
                                       !.meta = normalizedMetas'[normalizedCacheKey]],
                            transpiledModules, Store, {}))

FetchModuleNormalized(c, cr, normalizeFunction, normalizedCacheKey, cached, fresh) ==
  IF ~cached /\ ~fresh.ok
  THEN /\ calls' = [calls EXCEPT ![c] = Fail(cr, "TypeError")]
       /\ UNCHANGED <<metas, packages, promises, normalizedMetas, combinedMetas,
                      dependencies, initiators>>
  ELSE /\ normalizedMetas' =
            IF cached THEN normalizedMetas
            ELSE (normalizedCacheKey :> fresh.meta) @@ normalizedMetas
       /\ combinedMetas' = combinedMetas \cup normalizedMetas'[normalizedCacheKey]
       /\ Resume(c, cr.from,
                 runResolve([cr EXCEPT !.normalizeFunction = normalizeFunction,
                                       !.meta = normalizedMetas'[normalizedCacheKey]],
                            transpiledModules, Store, {}))

FetchModuleRoot(c, cr, doc, normalizeFunction, rootPath) ==
  FetchModuleNormalized(c, cr, normalizeFunction,
                        cr.dependencyName \o PathStr(rootPath),
                        (cr.dependencyName \o PathStr(rootPath)) \in DOMAIN normalizedMetas,
                        applyNormalize(normalizeFunction, doc, rootPath))

\* The awaited getMeta promise fulfils: normalise, merge, resolve the path.
FetchModuleMetaFulfilled(c) ==
  /\ calls[c].pc \in {"awaitMeta", "awaitMetaFallback"}
  /\ promises[calls[c].await].st = "fulfilled"
  /\ FetchModuleRoot(c, calls[c], promises[calls[c].await].value,
       IF calls[c].pc = "awaitMetaFallback"
       THEN normalizeMetaOf(getFetchProtocol(calls[c].version, TRUE))
       ELSE calls[c].normalizeFunction,
       IF calls[c].packageJSONPath # <<>> THEN pathDirname(calls[c].packageJSONPath)
       ELSE pathJoin(<<"node_modules">>, <<calls[c].dependencyName>>))
  /\ UNCHANGED <<proto, norm, retry, rs, transpiledModules, manifest>>

\* readFile's download settles: the module joins the graph and the resolver goes
\* on, or the resolver gets the error.
ReadFileSettled(c) ==
  /\ calls[c].pc = "awaitRead"
  /\ promises[calls[c].await].st # "pending"
  /\ transpiledModules' =
       IF promises[calls[c].await].st = "fulfilled"
       THEN (calls[c].reading :> promises[calls[c].await].value.code) @@ transpiledModules
       ELSE transpiledModules
  /\ Resume(c, calls[c].from,
            IF promises[calls[c].await].st = "fulfilled"
            THEN runResolve(calls[c], transpiledModules', Store, {calls[c].reading})
            ELSE runResolve([calls[c] EXCEPT !.failed = @ \cup {calls[c].reading}],
                            transpiledModules, Store, {}))
  /\ UNCHANGED <<proto, norm, retry, rs, manifest, normalizedMetas, combinedMetas>>

\* The promise that fetchModule returned (downloadDependency's) settles.
FetchModuleSettled(c) ==
  /\ calls[c].pc = "awaitFile"
  /\ promises[calls[c].await].st # "pending"
  /\ LET cr == calls[c]
         q == promises[cr.await]
     IN calls' = [calls EXCEPT ![c] =
                    IF q.st = "rejected" THEN Fail(cr, "NetworkFailure")
                    ELSE [cr EXCEPT !.pc = "done", !.await = NoPromise,
                                    !.result = [path |-> q.path, code |-> q.value.code,
                                                requires |-> <<>>, stubbed |-> FALSE,
                                                downloaded |-> TRUE]]]
  /\ UNCHANGED <<proto, norm, retry, rs, graphVars, metas, packages, normalizedMetas,
                 combinedMetas, promises>>

(***************************************************************************)
(* The promises of the caches: the network answers                         *)
(***************************************************************************)
Settle(p, st, value) ==
  promises' = [promises EXCEPT ![p] = [@ EXCEPT !.st = st, !.stage = "done",
                                               !.value = value]]

RejectMeta_KeepEntry(p) ==
  /\ Settle(p, "rejected", NoValue)
  /\ UNCHANGED metas

\* .catch(e => { delete metas[id]; throw e; })
RejectMeta(p) ==
  /\ Settle(p, "rejected", NoValue)
  /\ metas' = deleteKey(metas, promises[p].key)

PendingAt(p, kind, stage) ==
  /\ p \in DOMAIN promises
  /\ promises[p].kind = kind
  /\ promises[p].st = "pending"
  /\ promises[p].stage = stage

\* jsDelivrNPM.meta for a tag: /package.json is downloaded and its version read.
MetaPackageJson(p) ==
  /\ PendingAt(p, "meta", "pkgjson")
  /\ promises[promises[p].wait].st # "pending"
  /\ LET m == promises[p]
         file == promises[m.wait]
     IN IF file.st = "fulfilled" /\ jsonParses(file.value.code)
        THEN /\ promises' = [promises EXCEPT ![p] =
                  [m EXCEPT !.stage = "fetch",
                            !.sent = Append(@, Request(m.protocol, "meta", m.name,
                                                       file.value.code.version, <<>>))]]
             /\ UNCHANGED metas
        ELSE RejectMeta(p)
  /\ UNCHANGED <<proto, norm, retry, rs, graphVars, packages, normalizedMetas,
                 combinedMetas, calls>>

\* jsDelivrGH.meta: GitHub answers the request for the latest sha, or does not.
MetaSha(p, ok) ==
  /\ PendingAt(p, "meta", "sha")
  /\ LET m == promises[p]
     IN IF ok
        THEN /\ promises' = [promises EXCEPT ![p] =
                  [m EXCEPT !.stage = "fetch",
                            !.sent = Append(@, Request(m.protocol, "meta", m.name,
                                                       m.version, <<>>))]]
             /\ UNCHANGED metas
        ELSE RejectMeta(p)
  /\ UNCHANGED <<proto, norm, retry, rs, graphVars, packages, normalizedMetas,
                 combinedMetas, calls>>

\* fetchWithRetries of the metadata URL returns a response, or throws.
MetaFetched(p, ok) ==
  /\ PendingAt(p, "meta", "fetch")
  /\ IF ok
     THEN /\ Settle(p, "fulfilled", MetaDocument(promises[p].protocol, promises[p].name))
          /\ UNCHANGED metas
     ELSE RejectMeta(p)
  /\ UNCHANGED <<proto, norm, retry, rs, graphVars, packages, normalizedMetas,
                 combinedMetas, calls>>

FileValue(q) ==
  [format |-> "none", files |-> {},
   code |-> RemoteCode(relativePath(q.path, q.name))]

FileFetched_NoFallback(p, ok) ==
  /\ PendingAt(p, "content", "primary")
  /\ IF ok THEN Settle(p, "fulfilled", FileValue(promises[p]))
     ELSE Settle(p, "rejected", NoValue)
  /\ UNCHANGED <<proto, norm, retry, rs, graphVars, metas, packages, normalizedMetas,
                 combinedMetas, calls>>

\* fetchWithRetries of the file URL returns, or throws and the fallback URL is
\* fetched.
FileFetched(p, ok) ==
  /\ PendingAt(p, "content", "primary")
  /\ LET q == promises[p]
         fallbackProtocol == getFetchProtocol(q.version, TRUE)
     IN IF ok THEN Settle(p, "fulfilled", FileValue(q))
        ELSE promises' = [promises EXCEPT ![p] =
               [q EXCEPT !.stage = "fallback", !.protocol = fallbackProtocol,
                         !.sent = Append(@, Request(fallbackProtocol, "file", q.name,
                                                    q.version, relativePath(q.path, q.name)))]]
  /\ UNCHANGED <<proto, norm, retry, rs, graphVars, metas, packages, normalizedMetas,
                 combinedMetas, calls>>

\* fetchWithRetries of the fallback URL returns, or throws and the promise rejects.
FileFallbackFetched(p, ok) ==
  /\ PendingAt(p, "content", "fallback")
  /\ IF ok THEN Settle(p, "fulfilled", FileValue(promises[p]))
     ELSE Settle(p, "rejected", NoValue)
  /\ UNCHANGED <<proto, norm, retry, rs, graphVars, metas, packages, normalizedMetas,
                 combinedMetas, calls>>

(***************************************************************************)
(* Specification of concurrent fetchModule calls                           *)
(***************************************************************************)
\* The most promises NumCalls calls can create.
PromiseIds == 1..(4 * NumCalls)

Init ==
  /\ transpiledModules = MainModules
  /\ manifest = MainManifest
  /\ dependencies = {}
  /\ initiators = {}
  /\ metas = <<>>
  /\ packages = <<>>
  /\ normalizedMetas = <<>>
  /\ combinedMetas = {}
  /\ promises = <<>>
  /\ calls = [c \in Calls |-> IdleCall]
  /\ proto = ProtoIdle
  /\ norm = NormIdle
  /\ retry = RetryIdle
  /\ rs = RsIdle

Next ==
  \/ \E c \in Calls, req \in Requests : FetchModule(c, req)
  \/ \E c \in Calls : FetchModuleGetMeta(c)
  \/ \E c \in Calls : FetchModuleMetaRejected(c)
  \/ \E c \in Calls : FetchModuleMetaFulfilled(c)
  \/ \E c \in Calls : ReadFileSettled(c)
  \/ \E c \in Calls : FetchModuleSettled(c)
  \/ \E p \in PromiseIds : MetaPackageJson(p)
  \/ \E p \in PromiseIds, ok \in BOOLEAN : MetaSha(p, ok)
  \/ \E p \in PromiseIds, ok \in BOOLEAN : MetaFetched(p, ok)
  \/ \E p \in PromiseIds, ok \in BOOLEAN : FileFetched(p, ok)
  \/ \E p \in PromiseIds, ok \in BOOLEAN : FileFallbackFetched(p, ok)

Spec == Init /\ [][Next]_vars

(***************************************************************************)
(* Specification of the exported operations: fetchModule calls for one     *)
(* package, downloadDependency called from outside, and setCombinedMetas   *)
(***************************************************************************)
\* What setCombinedMetas is given: nothing, or the index of another session.
GivenMetas == { {}, { <<"node_modules", "other", "index.js">> } }

\* export function setCombinedMetas(givenCombinedMetas)
SetCombinedMetas(givenCombinedMetas) ==
  /\ combinedMetas' = givenCombinedMetas
  /\ UNCHANGED <<proto, norm, retry, rs, graphVars, metas, packages, normalizedMetas,
                 promises, calls>>

\* The triple an outside caller downloads.
DirectDownloads ==
  { [name |-> "pkg", version |-> V_semver, path |-> <<"node_modules", "pkg", "index.js">>] }

\* export async function downloadDependency(name, version, path), called from
\* outside fetchModule, while the promises of the model last.
DownloadDependency(t) ==
  /\ Len(promises) < 4 * NumCalls
  /\ SetStore(downloadDependency(Store, t.name, t.version, t.path).S)
  /\ UNCHANGED <<proto, norm, retry, rs, graphVars, normalizedMetas, combinedMetas, calls>>

IndexRequests == { [path |-> <<"pkg">>, from |-> <<"index.js">>] }

NextIndex ==
  \/ \E c \in Calls, req \in IndexRequests : FetchModule(c, req)
  \/ \E c \in Calls : FetchModuleGetMeta(c)
  \/ \E c \in Calls : FetchModuleMetaRejected(c)
  \/ \E c \in Calls : FetchModuleMetaFulfilled(c)
  \/ \E c \in Calls : ReadFileSettled(c)
  \/ \E c \in Calls : FetchModuleSettled(c)
  \/ \E p \in PromiseIds, ok \in BOOLEAN : MetaFetched(p, ok)
  \/ \E p \in PromiseIds, ok \in BOOLEAN : FileFetched(p, ok)
  \/ \E p \in PromiseIds, ok \in BOOLEAN : FileFallbackFetched(p, ok)
  \/ \E t \in DirectDownloads : DownloadDependency(t)
  \/ \E given \in GivenMetas : SetCombinedMetas(given)

SpecIndex == Init /\ [][NextIndex]_vars

(***************************************************************************)
(* Specification of fetchModule calls for an aliased dependency and for    *)
(* d3-interpolate                                                          *)
(***************************************************************************)
\* The root manifest: my-pkg declared as an alias of pkg, and d3-interpolate.
EdgeManifest ==
  [dependencies |-> << [name |-> "my-pkg", version |-> V_alias],
                       [name |-> "d3-interpolate", version |-> V_semver] >>,
   dependencyDependencies |-> <<>>]

EdgeRequests ==
  { [path |-> <<"my-pkg">>, from |-> <<"index.js">>],
    [path |-> <<"d3-interpolate">>, from |-> <<"index.js">>] }

InitEdge ==
  /\ transpiledModules = MainModules
  /\ manifest = EdgeManifest
  /\ dependencies = {}
  /\ initiators = {}
  /\ metas = <<>>
  /\ packages = <<>>
  /\ normalizedMetas = <<>>
  /\ combinedMetas = {}
  /\ promises = <<>>
  /\ calls = [c \in Calls |-> IdleCall]
  /\ proto = ProtoIdle
  /\ norm = NormIdle
  /\ retry = RetryIdle
  /\ rs = RsIdle

NextEdge ==
  \/ \E c \in Calls, req \in EdgeRequests : FetchModule(c, req)
  \/ \E c \in Calls : FetchModuleGetMeta(c)
  \/ \E c \in Calls : FetchModuleMetaRejected(c)
  \/ \E c \in Calls : FetchModuleMetaFulfilled(c)
  \/ \E c \in Calls : ReadFileSettled(c)
  \/ \E c \in Calls : FetchModuleSettled(c)
  \/ \E p \in PromiseIds, ok \in BOOLEAN : MetaFetched(p, ok)
  \/ \E p \in PromiseIds, ok \in BOOLEAN : FileFetched(p, ok)
  \/ \E p \in PromiseIds, ok \in BOOLEAN : FileFallbackFetched(p, ok)

SpecEdge == InitEdge /\ [][NextEdge]_vars

(***************************************************************************)
(* Specification of two fetchModule calls for the same package, one under  *)
(* its name and one under an alias                                         *)
(***************************************************************************)
\* The root manifest: pkg, and my-pkg declared as an alias of the same version.
AliasManifest ==
  [dependencies |-> << [name |-> "pkg", version |-> V_semver],
                       [name |-> "my-pkg", version |-> V_alias] >>,
   dependencyDependencies |-> <<>>]

AliasRequests ==
  { [path |-> <<"pkg">>, from |-> <<"index.js">>],
    [path |-> <<"my-pkg">>, from |-> <<"index.js">>] }

InitAlias ==
  /\ transpiledModules = MainModules
  /\ manifest = AliasManifest
  /\ dependencies = {}
  /\ initiators = {}
  /\ metas = <<>>
  /\ packages = <<>>
  /\ normalizedMetas = <<>>
  /\ combinedMetas = {}
  /\ promises = <<>>
  /\ calls = [c \in Calls |-> IdleCall]
  /\ proto = ProtoIdle
  /\ norm = NormIdle
  /\ retry = RetryIdle
  /\ rs = RsIdle

\* Each of the two requests is made once, in either order.
NextAlias ==
  \/ \E c \in Calls,
          req \in { r \in AliasRequests : \A b \in Calls : calls[b].path # r.path } :
       FetchModule(c, req)
  \/ \E c \in Calls : FetchModuleGetMeta(c)
  \/ \E c \in Calls : FetchModuleMetaRejected(c)
  \/ \E c \in Calls : FetchModuleMetaFulfilled(c)
  \/ \E c \in Calls : ReadFileSettled(c)
  \/ \E c \in Calls : FetchModuleSettled(c)
  \/ \E p \in PromiseIds, ok \in BOOLEAN : MetaFetched(p, ok)
  \/ \E p \in PromiseIds, ok \in BOOLEAN : FileFetched(p, ok)
  \/ \E p \in PromiseIds, ok \in BOOLEAN : FileFallbackFetched(p, ok)

SpecAlias == InitAlias /\ [][NextAlias]_vars

(***************************************************************************)
(* Specification of readFile, step by step: the resolver reads the         *)
(* package.json of each directory above the requesting module, nearest     *)
(* first, until one is read or a read fails                                *)
(***************************************************************************)
\* Resolutions of one run.
MaxWalks == 2

\* The modules in the graph: those of the sandbox and two files of pkg, loaded
\* without the package.json of pkg.
ReadModules == (PkgIndex :> TextCode) @@ (PkgLibX :> TextCode) @@ MainModules

\* callback(err) and callback(null, code).
Callback(p, err, code) == [path |-> p, err |-> err, code |-> code]

\* No readFile call in progress. snap is the graph when the last read began.
ReadIdle(meta) ==
  [pc |-> "idle", from |-> <<>>, meta |-> meta, dirs |-> <<>>, p |-> <<>>,
   depName |-> "", await |-> NoPromise, steps |-> <<>>, callbacks |-> <<>>,
   outcome |-> "", walks |-> 0,
   snap |-> [G |-> <<>>, dependencies |-> {}, initiators |-> {}]]

InitRead ==
  /\ transpiledModules = ReadModules
  /\ manifest \in { MainManifest, [dependencies |-> <<>>, dependencyDependencies |-> <<>>] }
  /\ dependencies = {}
  /\ initiators = {}
  /\ metas = <<>>
  /\ packages = <<>>
  /\ normalizedMetas = <<>>
  /\ combinedMetas = {}
  /\ promises = <<>>
  /\ calls = [c \in Calls |-> IdleCall]
  /\ proto = ProtoIdle
  /\ norm = NormIdle
  /\ retry = RetryIdle
  /\ rs \in { ReadIdle(meta) : meta \in { {}, {PkgJson, PkgIndex} } }

\* resolve(path, {filename: currentPath, ...}) begins: the directories above the
\* requesting module.
ReadResolve(from) ==
  /\ rs.pc = "idle"
  /\ rs.walks < MaxWalks
  /\ rs' = [rs EXCEPT !.pc = "walk", !.from = from, !.walks = @ + 1,
                      !.dirs = Ancestors(SubSeq(from, 1, Len(from) - 1)),
                      !.steps = <<>>, !.callbacks = <<>>, !.outcome = ""]
  /\ UNCHANGED <<proto, norm, retry, graphVars, cacheVars>>

\* readFile(p, c, cb) up to its first await: the module of the graph, the ENOENT
\* error, or the call of getDependencyVersion.
ReadFileCall(p, r) ==
  /\ rs.pc = "walk"
  /\ p = Head(rs.dirs) \o <<"package.json">>
  /\ r = readFile(p, transpiledModules, rs.meta, {})
  /\ IF r = "hit"
     THEN /\ addEdges(rs.from, {p})
          /\ rs' = [rs EXCEPT !.pc = "idle", !.p = p, !.outcome = "graph",
                              !.callbacks = Append(@, Callback(p, "", transpiledModules[p]))]
     ELSE IF r = "enoent"
     THEN /\ rs' = [rs EXCEPT !.pc = IF Len(rs.dirs) = 1 THEN "idle" ELSE "walk",
                              !.p = p, !.dirs = Tail(@), !.outcome = "enoent",
                              !.callbacks = Append(@, Callback(p, "ENOENT", TextCode))]
          /\ UNCHANGED <<dependencies, initiators>>
     ELSE /\ rs' = [rs EXCEPT !.pc = "getVersion", !.p = p, !.outcome = "",
                              !.depName = getDependencyName(afterNodeModules(p, TRUE)),
                              !.snap = [G |-> transpiledModules,
                                        dependencies |-> dependencies,
                                        initiators |-> initiators]]
          /\ UNCHANGED <<dependencies, initiators>>
  /\ UNCHANGED <<proto, norm, retry, transpiledModules, manifest, cacheVars>>

\* getDependencyVersion has returned: callback(e) without a version, else
\* downloadDependency(depName, subDepVersion, p).
ReadFileVersion(v) ==
  /\ rs.pc = "getVersion"
  /\ addEdges(rs.from, v.reads)
  /\ IF v.info.isNull
     THEN /\ rs' = [rs EXCEPT !.pc = "idle", !.outcome = "failed",
                              !.steps = Append(@, "getDependencyVersion"),
                              !.callbacks = Append(@, Callback(rs.p, "original", TextCode))]
          /\ UNCHANGED <<metas, packages, promises>>
     ELSE LET d == downloadDependency(Store, rs.depName, v.info.version, rs.p)
          IN /\ rs' = [rs EXCEPT !.pc = "awaitDownload", !.await = d.p,
                                 !.steps = @ \o <<"getDependencyVersion",
                                                  "downloadDependency">>]
             /\ SetStore(d.S)
  /\ UNCHANGED <<proto, norm, retry, transpiledModules, manifest, normalizedMetas,
                 combinedMetas, calls>>

ReadFileDownloaded_NoAddModule ==
  /\ rs.pc = "awaitDownload"
  /\ promises[rs.await].st # "pending"
  /\ IF promises[rs.await].st = "fulfilled"
     THEN /\ UNCHANGED transpiledModules
          /\ addEdges(rs.from, {rs.p})
          /\ rs' = [rs EXCEPT !.pc = "idle", !.outcome = "downloaded",
                              !.steps = @ \o <<"addEdge", "callback">>,
                              !.callbacks = Append(@, Callback(rs.p, "",
                                                     promises[rs.await].value.code))]
     ELSE /\ rs' = [rs EXCEPT !.pc = "idle", !.outcome = "failed",
                              !.callbacks = Append(@, Callback(rs.p, "original", TextCode))]
          /\ UNCHANGED <<transpiledModules, dependencies, initiators>>
  /\ UNCHANGED <<proto, norm, retry, manifest, cacheVars>>

ReadFileDownloaded_AddBeforeCheck ==
  /\ rs.pc = "awaitDownload"
  /\ promises[rs.await].st # "pending"
  /\ transpiledModules' = (rs.p :> promises[rs.await].value.code) @@ transpiledModules
  /\ addEdges(rs.from, {rs.p})
  /\ IF promises[rs.await].st = "fulfilled"
     THEN rs' = [rs EXCEPT !.pc = "idle", !.outcome = "downloaded",
                           !.steps = @ \o <<"addModule", "addEdge", "callback">>,
                           !.callbacks = Append(@, Callback(rs.p, "",
                                                  promises[rs.await].value.code))]
     ELSE rs' = [rs EXCEPT !.pc = "idle", !.outcome = "failed",
                           !.callbacks = Append(@, Callback(rs.p, "original", TextCode))]
  /\ UNCHANGED <<proto, norm, retry, manifest, cacheVars>>

\* downloadDependency's promise has settled: the module joins the graph, the
\* edge is recorded and callback(null, module.code) is called, or callback(e).
ReadFileDownloaded ==
  /\ rs.pc = "awaitDownload"
  /\ promises[rs.await].st # "pending"
  /\ IF promises[rs.await].st = "fulfilled"
     THEN /\ transpiledModules' =
               (rs.p :> promises[rs.await].value.code) @@ transpiledModules
          /\ addEdges(rs.from, {rs.p})
          /\ rs' = [rs EXCEPT !.pc = "idle", !.outcome = "downloaded",
                              !.steps = @ \o <<"addModule", "addEdge", "callback">>,
                              !.callbacks = Append(@, Callback(rs.p, "",
                                                     promises[rs.await].value.code))]
     ELSE /\ rs' = [rs EXCEPT !.pc = "idle", !.outcome = "failed",
                              !.callbacks = Append(@, Callback(rs.p, "original", TextCode))]
          /\ UNCHANGED <<transpiledModules, dependencies, initiators>>
  /\ UNCHANGED <<proto, norm, retry, manifest, cacheVars>>

NextRead ==
  \/ \E from \in {<<"index.js">>, PkgIndex, PkgLibX} : ReadResolve(from)
  \/ \E r \in {"hit", "enoent", "async"} :
       ReadFileCall(Head(rs.dirs) \o <<"package.json">>, r)
  \/ ReadFileVersion(getDependencyVersion(rs.from, defaultExtensions, transpiledModules,
                                          manifest, rs.depName, ""))
  \/ ReadFileDownloaded
  \/ \E p \in PromiseIds, ok \in BOOLEAN : FileFetched(p, ok)
  \/ \E p \in PromiseIds, ok \in BOOLEAN : FileFallbackFetched(p, ok)

SpecRead == InitRead /\ [][NextRead]_vars

(***************************************************************************)
(* C5: getFetchProtocol selects the draft backend for a draft version,     *)
(* else the GitHub backend for a version containing "/", else jsDelivrNPM, *)
(* or unpkg with useFallback; a user/repo slug always selects GitHub, a    *)
(* numeric semver never does, and useFallback matters only for versions    *)
(* that are neither draft nor GitHub.                                      *)
(***************************************************************************)
IsSlug(v) ==
  \E i \in 2..(Len(v) - 1) :
    /\ v[i] = "/"
    /\ \A k \in 1..Len(v) : k # i => v[k] \notin {"/", ":", "."}

IsNumericSemver(v) ==
  /\ Len(v) >= 1
  /\ \A k \in 1..Len(v) : v[k] \in Digits \cup {"."}
  /\ v[1] \in Digits

C5_ProtocolSelection ==
  proto.pc = "done" =>
    LET v == proto.version
        draft == Contains(v, DraftPattern) \/ Contains(v, DraftStagingPattern)
        slash == \E i \in 1..Len(v) : v[i] = "/"
    IN /\ draft => proto.result = "csbGH"
       /\ (~draft /\ slash) => proto.result = "jsDelivrGH"
       /\ (~draft /\ ~slash) =>
            proto.result = (IF proto.useFallback THEN "unpkg" ELSE "jsDelivrNPM")
       /\ IsSlug(v) => proto.result = "jsDelivrGH"
       /\ IsNumericSemver(v) => proto.result # "jsDelivrGH"
       /\ (proto.result # proto.other) <=> (~draft /\ ~slash)

C5_Witness ==
  /\ proto.pc = "done"
  /\ proto.version = V_draft
  /\ proto.useFallback
  /\ proto.result = "csbGH"

(***************************************************************************)
(* C9: for the same file set and root path, normalize on the nested tree   *)
(* and normalizeJSDelivr on the flat list give the same existence set.     *)
(***************************************************************************)
C9_SameExistenceSet ==
  norm.pc = "done" =>
    /\ norm.fromTree = norm.fromFlat
    /\ norm.fromTree = {norm.rootPath \o f : f \in norm.files}

C9_Witness ==
  /\ norm.pc = "done"
  /\ <<"lib", "sub", "z.js">> \in norm.files
  /\ <<"index.js">> \in norm.files
  /\ norm.rootPath = <<"node_modules", "pkg", "node_modules", "dep">>
  /\ Cardinality(norm.fromFlat) = Cardinality(norm.files)

(***************************************************************************)
(* C3: against an endpoint that always fails fetchWithRetries(url, n)      *)
(* makes exactly n attempts and raises only after the n-th; an attempt     *)
(* that succeeds is returned at once and is the last attempt.              *)
(***************************************************************************)
C3_ExactlyNAttempts ==
  retry.pc # "off" =>
    LET made == Len(retry.starts)
        done == Len(retry.outcomes)
    IN /\ made <= retry.retries
       /\ \A k \in 1..(done - 1) : retry.outcomes[k] = "fail"
       /\ retry.pc = "failed" =>
            /\ made = retry.retries
            /\ done = made
            /\ \A k \in 1..done : retry.outcomes[k] = "fail"
       /\ retry.pc = "returned" =>
            /\ done = made
            /\ retry.outcomes[done] = "ok"
       /\ retry.pc \in {"fetch", "delay"} =>
            \A k \in 1..done : retry.outcomes[k] = "fail"

C3_Witness ==
  /\ retry.pc = "failed"
  /\ retry.retries = DefaultRetries
  /\ Len(retry.starts) = DefaultRetries

(***************************************************************************)
(* C4: two consecutive attempts of fetchWithRetries start at least 3000ms  *)
(* apart; the wait before a retry is what is left of the 3000ms since the  *)
(* previous attempt started, it is skipped when they have elapsed, and     *)
(* there is no wait before the first attempt.                              *)
(***************************************************************************)
C4_AttemptSpacing ==
  retry.pc # "off" =>
    /\ \A k \in 2..Len(retry.starts) :
         LET took == retry.ends[k - 1] - retry.starts[k - 1]
             waited == {w \in Range(retry.waits) : w.before = k}
         IN /\ retry.starts[k] - retry.starts[k - 1] >= RetryDelay
            /\ took >= RetryDelay =>
                 waited = {} /\ retry.starts[k] = retry.ends[k - 1]
            /\ took < RetryDelay =>
                 \E w \in waited : w.ms = RetryDelay - took
    /\ \A w \in Range(retry.waits) : w.before > 1
    /\ retry.pc = "delay" =>
         retry.delayMs = RetryDelay - (retry.now - retry.lastTryTime)

C4_Witness ==
  /\ Len(retry.starts) >= 3
  /\ \E w \in Range(retry.waits) : w.before = 2 /\ w.ms = RetryDelay - 1
  /\ \A w \in Range(retry.waits) : w.before # 3

(***************************************************************************)
(* C6: when <pkg>/package.json resolves to /node_modules/<pkg>/package.json *)
(* and the root manifest declares pkg, getDependencyVersion returns the    *)
(* manifest's declared version with that path, whatever the file's version *)
(* field and the lock record are.                                          *)
(***************************************************************************)
C6_RootManifestVersionWins ==
  (/\ rs.pc = "done"
   /\ rs.op = "getDependencyVersion"
   /\ rs.found.st = "found"
   /\ rs.found.path = <<"node_modules", rs.dependencyName, "package.json">>
   /\ \E i \in DOMAIN manifest.dependencies :
        manifest.dependencies[i].name = rs.dependencyName)
  => /\ ~rs.info.isNull
     /\ rs.info.packageJSONPath = rs.found.path
     /\ \E i \in DOMAIN manifest.dependencies :
          /\ manifest.dependencies[i].name = rs.dependencyName
          /\ rs.info.version = manifest.dependencies[i].version

C6_Witness ==
  /\ rs.pc = "done"
  /\ rs.op = "getDependencyVersion"
  /\ rs.found.path = PkgJson
  /\ transpiledModules[PkgJson] = JsonCode(V_semver, NoMain, {})
  /\ manifest.dependencies = <<[name |-> "pkg", version |-> V_draft]>>
  /\ "pkg" \in DOMAIN manifest.dependencyDependencies
  /\ manifest.dependencyDependencies["pkg"] = Lock(V_range, V_semver)
  /\ rs.info.version = V_draft

(***************************************************************************)
(* C7: with /node_modules/pkg/index.js the only candidate that the         *)
(* metadata holds and none in the graph, "pkg/lib/x" is a resolution miss  *)
(* and "pkg" resolves to /node_modules/pkg/index.js.                       *)
(***************************************************************************)
C7_Probes == MetaCandidates \ {PkgLibY}

C7_Scenario ==
  /\ rs.pc = "done"
  /\ rs.op = "resolvePath"
  /\ rs.meta \cap C7_Probes = {PkgIndex}
  /\ DOMAIN transpiledModules \cap C7_Probes = {}

C7_IndexFallbackAndMiss ==
  C7_Scenario =>
    /\ rs.path = <<"pkg", "lib", "x">> =>
         rs.result.st = "miss" /\ rs.result.path = NotFound
    /\ rs.path = <<"pkg">> => rs.result.st = "found" /\ rs.result.path = PkgIndex

C7_Witness ==
  /\ C7_Scenario
  /\ rs.path = <<"pkg">>
  /\ rs.meta = {PkgIndex, PkgLibY}
  /\ rs.result.path = PkgIndex

(***************************************************************************)
(* C1: for any Metadata Cache key, getMeta calls made while a fetch for    *)
(* the key is pending or after it has succeeded start at most one metadata *)
(* fetch in total: a second promise for a key exists only once every       *)
(* earlier one has rejected, the cache entry of a key is the one promise   *)
(* of that key that has not rejected, and a caller waiting for metadata    *)
(* holds the cache's promise for its key unless its promise has rejected.  *)
(***************************************************************************)
MetaPromises == { p \in DOMAIN promises : promises[p].kind = "meta" }

ContentPromises == { p \in DOMAIN promises : promises[p].kind = "content" }

AwaitingMeta(c) == calls[c].pc \in {"awaitMeta", "awaitMetaFallback"}

C1_OneMetaFetchPerKey ==
  /\ \A p, q \in MetaPromises :
       (p < q /\ promises[p].key = promises[q].key) => promises[p].st = "rejected"
  /\ \A id \in DOMAIN metas :
       /\ metas[id] \in MetaPromises
       /\ promises[metas[id]].key = id
       /\ promises[metas[id]].st # "rejected"
  /\ \A c \in Calls :
       AwaitingMeta(c) =>
         /\ calls[c].await \in MetaPromises
         /\ \/ promises[calls[c].await].st = "rejected"
            \/ /\ promises[calls[c].await].key \in DOMAIN metas
               /\ metas[promises[calls[c].await].key] = calls[c].await
  /\ \A p \in MetaPromises :
       Len(SelectSeq(promises[p].sent, LAMBDA r : r.what = "meta")) <= 1

\* Two calls asked getMeta for the same key and both went on from the one
\* promise that was ever created for it.
C1_Witness ==
  \E c, d \in Calls, p \in MetaPromises :
    /\ c < d
    /\ calls[c].metaGot = <<p>>
    /\ calls[d].metaGot = <<p>>
    /\ p \in calls[c].created
    /\ p \notin calls[d].created
    /\ promises[p].st = "fulfilled"
    /\ \A q \in MetaPromises : promises[q].key = promises[p].key => q = p
    /\ calls[c].pc = "done"
    /\ calls[d].pc = "done"

(***************************************************************************)
(* C2: downloadDependency called again with the same (name, version, path) *)
(* returns the cached promise and starts no new request, whether the first *)
(* download is pending or completed: a second promise for a Content Cache  *)
(* key never exists beside one that is pending or fulfilled, the cache     *)
(* entry of a key is a promise of that key, a caller waiting for a file    *)
(* holds the cache's promise, and one promise sends at most the primary    *)
(* and the fallback request.                                               *)
(***************************************************************************)
AwaitingContent(c) == calls[c].pc \in {"awaitRead", "awaitFile"}

C2_OneDownloadPerTriple ==
  /\ \A p, q \in ContentPromises :
       (p < q /\ promises[p].key = promises[q].key) => promises[p].st = "rejected"
  /\ \A id \in DOMAIN packages :
       /\ packages[id] \in ContentPromises
       /\ promises[packages[id]].key = id
  /\ \A c \in Calls :
       AwaitingContent(c) =>
         /\ calls[c].await \in ContentPromises
         /\ promises[calls[c].await].key \in DOMAIN packages
         /\ packages[promises[calls[c].await].key] = calls[c].await
  /\ \A p \in ContentPromises : Len(promises[p].sent) <= 2

\* Two calls got the same file from downloadDependency: one created the promise,
\* the other received it, and both ended with the same Module.
C2_Witness ==
  \E c, d \in Calls :
    /\ c # d
    /\ calls[c].fileGot # NoPromise
    /\ calls[c].fileGot = calls[d].fileGot
    /\ calls[c].fileGot \in calls[c].created
    /\ calls[c].fileGot \notin calls[d].created
    /\ calls[c].pc = "done"
    /\ calls[d].pc = "done"
    /\ calls[c].result = calls[d].result
    /\ Cardinality({ p \in ContentPromises :
                       promises[p].key = promises[calls[c].fileGot].key }) = 1

(***************************************************************************)
(* C8: a fetchModule call whose path resolves to '//empty.js' returns the  *)
(* stub. As claimed: without any network call, no download started and no  *)
(* Content Cache entry created for the call. As the code has it: the stub  *)
(* is returned without a downloadDependency of the resolved target, after  *)
(* the metadata requests of the call have been made.                       *)
(***************************************************************************)
\* The call's resolvePath ended in '//empty.js'.
Stubbed(c) == calls[c].foundPath = EmptyJS

ReturnsStub(c) ==
  /\ calls[c].pc = "done"
  /\ calls[c].result.code = StubCode
  /\ calls[c].result.code.kind = "module.exports = {};"
  /\ calls[c].result.requires = <<>>
  /\ calls[c].result.stubbed

\* The claim as stated.
C8_StubWithoutNetwork ==
  \A c \in Calls :
    Stubbed(c) =>
      /\ ReturnsStub(c)
      /\ calls[c].metaGot = <<>>
      /\ calls[c].created = {}

\* The claim as the code has it.
C8_StubWithoutTargetDownload ==
  \A c \in Calls :
    Stubbed(c) =>
      /\ ReturnsStub(c)
      /\ calls[c].fileGot = NoPromise
      /\ \A p \in ContentPromises : promises[p].path # EmptyJS
      /\ calls[c].metaGot # <<>>

C8_Witness ==
  \E c \in Calls :
    /\ Stubbed(c)
    /\ ReturnsStub(c)
    /\ calls[c].path = <<"tagged">>
    /\ calls[c].created \cap ContentPromises # {}
    /\ calls[c].created \cap MetaPromises # {}

(***************************************************************************)
(* C10: after a content download has failed on the primary and on the      *)
(* fallback backend, the Content Cache holds no entry for its triple, so a *)
(* later downloadDependency of the triple starts a fresh download.         *)
(***************************************************************************)
C10_FailedContentEntryRemoved ==
  \A p \in ContentPromises :
    promises[p].st = "rejected" =>
      ~(promises[p].key \in DOMAIN packages /\ packages[promises[p].key] = p)

(***************************************************************************)
(* C11: after a metadata fetch for a key has failed the Metadata Cache has *)
(* no entry of it by the time a waiter sees the failure, and the next      *)
(* getMeta of the key starts a new fetch; after a metadata fetch has       *)
(* succeeded its entry stays and no later getMeta of the key fetches       *)
(* again.                                                                  *)
(***************************************************************************)
MetaEntry(p) ==
  /\ promises[p].key \in DOMAIN metas
  /\ metas[promises[p].key] = p

\* The promise a getMeta call has just handed to call c, if c has just asked.
AskedMeta(c) == Len(calls'[c].metaGot) = Len(calls[c].metaGot) + 1

LastMeta(c) == calls'[c].metaGot[Len(calls'[c].metaGot)]

C11_FailedEntryRemovedFulfilledKept ==
  /\ [](\A p \in MetaPromises :
          /\ promises[p].st = "rejected" => ~MetaEntry(p)
          /\ promises[p].st = "fulfilled" =>
               /\ MetaEntry(p)
               /\ \A q \in MetaPromises :
                    promises[q].key = promises[p].key => q <= p)
  /\ [][\A c \in Calls :
          AskedMeta(c) =>
            /\ promises'[LastMeta(c)].st # "rejected"
            /\ \/ LastMeta(c) \in DOMAIN promises /\ MetaEntry(LastMeta(c))
               \/ /\ LastMeta(c) \notin DOMAIN promises
                  /\ \A q \in MetaPromises :
                       promises[q].key = promises'[LastMeta(c)].key =>
                         promises[q].st = "rejected"]_vars

\* A fetch for a key failed, a later getMeta of the key fetched again, and that
\* fetch succeeded and is the entry of the key.
C11_Witness ==
  \E p, q \in MetaPromises :
    /\ p < q
    /\ promises[p].key = promises[q].key
    /\ promises[p].st = "rejected"
    /\ promises[q].st = "fulfilled"
    /\ MetaEntry(q)
    /\ \E c \in Calls : calls[c].metaGot = <<p, q>>

(***************************************************************************)
(* C12: when no version can be determined for the dependency of the        *)
(* requested path, fetchModule fails with DependencyNotFoundError for that *)
(* call only: the call makes no metadata and no content request, the step  *)
(* leaves the Metadata, PathSet and Content caches and the combined index  *)
(* as they were, and every other call stays where it was.                  *)
(***************************************************************************)
NoVersionFor(c) ==
  getDependencyVersion(calls[c].from, defaultExtensions, transpiledModules, manifest,
                       calls[c].dependencyName, "").info.isNull

DependencyNotFound(c) == calls[c].pc = "failed" /\ calls[c].error = "DependencyNotFound"

C12_DependencyNotFoundIsLocal ==
  /\ [](\A c \in Calls :
          /\ (calls[c].pc # "idle" /\ NoVersionFor(c)) => DependencyNotFound(c)
          /\ DependencyNotFound(c) =>
               /\ calls[c].created = {}
               /\ calls[c].metaGot = <<>>
               /\ calls[c].fileGot = NoPromise)
  /\ [][\A c \in Calls :
          (calls[c].pc = "idle" /\ calls'[c].error = "DependencyNotFound") =>
            /\ UNCHANGED <<metas, packages, normalizedMetas, combinedMetas, promises>>
            /\ \A d \in Calls \ {c} : calls'[d] = calls[d]]_vars
  /\ [][\A c \in Calls : DependencyNotFound(c) => calls'[c] = calls[c]]_vars

\* A call failed with DependencyNotFound and an earlier call ended with the file
\* it downloaded.
C12_Witness ==
  \E c, d \in Calls :
    /\ d < c
    /\ DependencyNotFound(c)
    /\ calls[c].path = <<"unknown">>
    /\ calls[d].pc = "done"
    /\ calls[d].result.downloaded
    /\ promises # <<>>

(***************************************************************************)
(* C13: in fetchModule, when the metadata fetch through the selected       *)
(* backend fails, the fetch is retried exactly once with the fallback      *)
(* backend (a fetch the retry starts is the fallback backend's) and the    *)
(* result is normalised with the fallback backend's normaliser; when the   *)
(* fallback attempt fails too the call fails and that step writes no       *)
(* PathSet and no combined-index entry.                                    *)
(***************************************************************************)
ForcedFallback(c) == calls[c].dependencyName = "d3-interpolate"

\* The call has got its metadata and gone on to resolvePath.
PassedMeta(c) ==
  \/ calls[c].pc \in {"awaitRead", "awaitFile", "done"}
  \/ /\ calls[c].pc = "failed"
     /\ \/ calls[c].error \in {"ResolutionMiss", "ReadError"}
        \/ calls[c].error = "NetworkFailure" /\ calls[c].fileGot # NoPromise

\* The call failed while it waited for metadata.
FailedAtMeta(c) ==
  /\ calls[c].pc = "failed"
  /\ calls[c].error = "NetworkFailure"
  /\ calls[c].fileGot = NoPromise

FallbackOf(c) == getFetchProtocol(resolveNPMAlias(calls[c].dependencyName,
                                                  calls[c].version).version, TRUE)

C14_IndexNeverShrinks == [][combinedMetas \subseteq combinedMetas']_vars

IsSetCombinedMetas ==
  /\ combinedMetas' \in GivenMetas
  /\ UNCHANGED <<graphVars, metas, packages, normalizedMetas, promises, calls>>

\* The claim as the code has it.
C14_IndexShrinksOnlyBySet ==
  /\ [][combinedMetas \subseteq combinedMetas' \/ IsSetCombinedMetas]_vars
  /\ [][\A c \in Calls :
          (~PassedMeta(c) /\ PassedMeta(c)') =>
            (combinedMetas \cup calls'[c].meta) \subseteq combinedMetas']_vars

\* setCombinedMetas gave the index another session's path and a fetchModule call
\* then merged its PathSet into it.
C14_Witness ==
  /\ <<"node_modules", "other", "index.js">> \in combinedMetas
  /\ \E c \in Calls :
       /\ PassedMeta(c)
       /\ calls[c].meta # {}
       /\ calls[c].meta \subseteq combinedMetas

(***************************************************************************)
(* C15: when getDependencyVersion does not get a version from the          *)
(* dependency's package.json (the path is not found, the code does not     *)
(* parse, or the code is '//empty.js') the result is the lock record's     *)
(* semver if the record exists and its semver starts with 'https://', else *)
(* the lock record's resolved version if the record exists, else the root  *)
(* manifest's declared version, and null only when none of these gives a   *)
(* version; no manifest path comes with it.                                *)
(***************************************************************************)
VersionCallDone == rs.pc = "done" /\ rs.op = "getDependencyVersion"

RootDeclares(name) ==
  \E i \in DOMAIN manifest.dependencies : manifest.dependencies[i].name = name

RootDeclared(name) ==
  manifest.dependencies[CHOOSE i \in DOMAIN manifest.dependencies :
                          manifest.dependencies[i].name = name].version

HasLock(name) == name \in DOMAIN manifest.dependencyDependencies

LockOf(name) == manifest.dependencyDependencies[name]

IsHttps(v) == Len(v) >= 8 /\ SubSeq(v, 1, 8) = HttpsPrefix

\* Lines 405-417 returned the root manifest's version.
Overridden ==
  /\ rs.found.st = "found"
  /\ rs.found.path = <<"node_modules", rs.dependencyName, "package.json">>
  /\ RootDeclares(rs.dependencyName)

ManifestFileRead ==
  /\ rs.found.st = "found"
  /\ rs.found.path \in DOMAIN transpiledModules
  /\ transpiledModules[rs.found.path].kind = "json"

C15_VersionFallbackOrder ==
  (VersionCallDone /\ ~Overridden /\ ~ManifestFileRead) =>
    IF HasLock(rs.dependencyName) /\ IsHttps(LockOf(rs.dependencyName).semver)
    THEN rs.info = VersionInfo(LockOf(rs.dependencyName).semver, <<>>)
    ELSE IF HasLock(rs.dependencyName)
    THEN rs.info = VersionInfo(LockOf(rs.dependencyName).resolved, <<>>)
    ELSE IF RootDeclares(rs.dependencyName)
    THEN rs.info = VersionInfo(RootDeclared(rs.dependencyName), <<>>)
    ELSE rs.info = NullInfo

\* No package.json of pkg is found, the root manifest and the lock record both
\* know pkg, and the lock record's URL is the result.
C15_Witness ==
  /\ VersionCallDone
  /\ rs.found.st # "found"
  /\ RootDeclares(rs.dependencyName)
  /\ RootDeclared(rs.dependencyName) = V_semver
  /\ HasLock(rs.dependencyName)
  /\ LockOf(rs.dependencyName) = Lock(V_draft, V_other)
  /\ rs.info = VersionInfo(V_draft, <<>>)

(***************************************************************************)
(* C16: when getDependencyVersion reads version v from a package.json that *)
(* the root manifest does not override, it returns the lock record's       *)
(* semver instead of v exactly when a lock record exists for the           *)
(* dependency, its resolved field equals v and its semver starts with      *)
(* 'https://'; in every other case it returns v; both with the path of the *)
(* package.json.                                                           *)
(***************************************************************************)
C16_LockUrlPreferred ==
  (VersionCallDone /\ ~Overridden /\ ManifestFileRead) =>
    IF /\ HasLock(rs.dependencyName)
       /\ LockOf(rs.dependencyName).resolved = transpiledModules[rs.found.path].version
       /\ IsHttps(LockOf(rs.dependencyName).semver)
    THEN rs.info = VersionInfo(LockOf(rs.dependencyName).semver, rs.found.path)
    ELSE rs.info = VersionInfo(transpiledModules[rs.found.path].version, rs.found.path)

\* The nested package.json states the version the lock record resolved, and the
\* lock record's URL is the result.
C16_Witness ==
  /\ VersionCallDone
  /\ ~Overridden
  /\ ManifestFileRead
  /\ HasLock(rs.dependencyName)
  /\ LockOf(rs.dependencyName).resolved = transpiledModules[rs.found.path].version
  /\ IsHttps(LockOf(rs.dependencyName).semver)
  /\ rs.info.version = LockOf(rs.dependencyName).semver
  /\ rs.info.version # transpiledModules[rs.found.path].version

(***************************************************************************)
(* C17: in downloadDependency, when the download through the primary       *)
(* backend has failed, exactly one fallback download is attempted, through *)
(* getFetchProtocol(version, true); when it succeeds the result is {path,  *)
(* code, downloaded: true} with the path that was asked for, and when it   *)
(* fails too every caller that waits for the entry gets the failure.       *)
(***************************************************************************)
FileRequest(q, protocol) ==
  Request(protocol, "file", q.name, q.version, relativePath(q.path, q.name))

\* The callers of downloadDependency that hold promise p and have seen it settle.
SettledWith(c, p) ==
  /\ calls[c].fileGot = p
  /\ calls[c].pc \in {"done", "failed"}

C17_OneContentFallback ==
  \A p \in ContentPromises :
    LET q == promises[p]
    IN /\ q.sent \in { <<FileRequest(q, getFetchProtocol(q.version, FALSE))>>,
                       <<FileRequest(q, getFetchProtocol(q.version, FALSE)),
                         FileRequest(q, getFetchProtocol(q.version, TRUE))>> }
       /\ q.stage = "primary" <=> (q.st = "pending" /\ Len(q.sent) = 1)
       /\ q.stage = "fallback" <=> (q.st = "pending" /\ Len(q.sent) = 2)
       /\ q.st = "rejected" =>
            /\ Len(q.sent) = 2
            /\ \A c \in Calls :
                 SettledWith(c, p) =>
                   calls[c].pc = "failed" /\ calls[c].error = "NetworkFailure"
       /\ q.st = "fulfilled" =>
            /\ q.value.code = RemoteCode(relativePath(q.path, q.name))
            /\ \A c \in Calls :
                 SettledWith(c, p) =>
                   /\ calls[c].pc = "done"
                   /\ calls[c].result.path = q.path
                   /\ calls[c].result.code = q.value.code
                   /\ calls[c].result.downloaded

\* One call got its file from the fallback backend after the primary had failed,
\* and another call's download failed on both.
C17_Witness ==
  \E c, d \in Calls, p, r \in ContentPromises :
    /\ SettledWith(c, p)
    /\ promises[p].st = "fulfilled"
    /\ Len(promises[p].sent) = 2
    /\ calls[c].result.path = promises[p].path
    /\ SettledWith(d, r)
    /\ promises[r].st = "rejected"
    /\ calls[d].error = "NetworkFailure"

(***************************************************************************)
(* C18: for a dependency declared with an NPM alias the alias is split     *)
(* into the real name and version before a backend is selected or          *)
(* contacted. As claimed: every cache key written for it (Metadata Cache,  *)
(* PathSet cache, Content Cache) is built from the real package name. As   *)
(* the code has it: getMeta and downloadDependency split the alias, every  *)
(* request carries the real name and version, the Content Cache key is     *)
(* real name + real version + path and the Metadata Cache key is the real  *)
(* name (or the package.json path) @ real version, while the PathSet key   *)
(* is the name that was asked for + the root path.                         *)
(***************************************************************************)
AliasCall(c) == calls[c].dependencyName = "my-pkg"

AliasPromises == UNION { calls[c].created : c \in { d \in Calls : AliasCall(d) } }

AliasRoot == <<"node_modules", "my-pkg">>

\* The claim as stated.
C18_AllKeysFromRealName ==
  /\ \A p \in AliasPromises :
       /\ promises[p].name = "pkg"
       /\ promises[p].kind = "meta" => promises[p].key = metaId("pkg", <<>>, V_semver)
       /\ promises[p].kind = "content" =>
            promises[p].key = packageId("pkg", V_semver, promises[p].path)
  /\ \A c \in Calls :
       (AliasCall(c) /\ PassedMeta(c)) =>
         /\ ("pkg" \o PathStr(AliasRoot)) \in DOMAIN normalizedMetas
         /\ ("my-pkg" \o PathStr(AliasRoot)) \notin DOMAIN normalizedMetas

\* The claim as the code has it.
C18_AliasSplitInCaches ==
  /\ \A p \in AliasPromises :
       /\ promises[p].name = "pkg"
       /\ promises[p].version = V_semver
       /\ \A i \in DOMAIN promises[p].sent :
            /\ promises[p].sent[i].name = "pkg"
            /\ promises[p].sent[i].version = V_semver
            /\ promises[p].sent[i].to \in {"jsDelivrNPM", "unpkg"}
       /\ promises[p].kind = "meta" =>
            promises[p].key \in { metaId("pkg", <<>>, V_semver),
                                  metaId("pkg", AliasRoot \o <<"package.json">>, V_semver) }
       /\ promises[p].kind = "content" =>
            promises[p].key = packageId("pkg", V_semver, promises[p].path)
  /\ \A c \in Calls :
       (AliasCall(c) /\ PassedMeta(c)) =>
         /\ ("my-pkg" \o PathStr(AliasRoot)) \in DOMAIN normalizedMetas
         /\ ("pkg" \o PathStr(AliasRoot)) \notin DOMAIN normalizedMetas

\* A call for the alias got metadata and a file of the real package and wrote its
\* PathSet under the alias name.
C18_Witness ==
  \E c \in Calls, p, q \in AliasPromises :
    /\ AliasCall(c)
    /\ calls[c].pc = "done"
    /\ calls[c].result.downloaded
    /\ calls[c].metaGot = <<p>>
    /\ promises[p].key = metaId("pkg", <<>>, V_semver)
    /\ calls[c].fileGot = q
    /\ promises[q].name = "pkg"
    /\ ("my-pkg" \o PathStr(AliasRoot)) \in DOMAIN normalizedMetas

(***************************************************************************)
(* C19: for d3-interpolate fetchModule goes straight to the fallback       *)
(* backend. As claimed: neither its metadata fetch nor its file download   *)
(* first sends a request to the primary CDN. As the code has it: the       *)
(* metadata is asked of the fallback backend only, and each file download  *)
(* sends its first request to the primary CDN.                             *)
(***************************************************************************)
D3Promises == { p \in DOMAIN promises : promises[p].name = "d3-interpolate" }

\* The claim as stated.
C19_NoPrimaryRequest ==
  \A p \in D3Promises :
    \A i \in DOMAIN promises[p].sent : promises[p].sent[i].to # "jsDelivrNPM"

\* The claim as the code has it.
C19_MetadataStraightToFallback ==
  /\ \A p \in D3Promises \cap MetaPromises :
       /\ promises[p].protocol = "unpkg"
       /\ promises[p].sent = <<Request("unpkg", "meta", "d3-interpolate", V_semver, <<>>)>>
  /\ \A p \in D3Promises \cap ContentPromises :
       promises[p].sent[1].to = "jsDelivrNPM"
  /\ \A c \in Calls :
       ForcedFallback(c) =>
         /\ calls[c].pc # "awaitMeta"
         /\ Len(calls[c].metaGot) <= 1
         /\ PassedMeta(c) => calls[c].normalizeFunction = normalizeMetaOf("unpkg")

C19_Witness ==
  \E c \in Calls, p \in D3Promises \cap MetaPromises, q \in D3Promises \cap ContentPromises :
    /\ ForcedFallback(c)
    /\ calls[c].pc = "done"
    /\ calls[c].metaGot = <<p>>
    /\ promises[p].protocol = "unpkg"
    /\ calls[c].fileGot = q
    /\ promises[q].sent[1].to = "jsDelivrNPM"

(***************************************************************************)
(* C20: every successful content read by the resolver adds both directions *)
(* of the edge between the requesting module and the target: at all times  *)
(* the target is in the requester's dependencies exactly if the requester  *)
(* is in the target's initiators, and a readFile whose download fulfilled  *)
(* leaves the downloaded module in the graph with both edges.              *)
(***************************************************************************)
Reversed(edges) == { <<e[2], e[1]>> : e \in edges }

ReadDownloaded(c) ==
  /\ calls[c].pc = "awaitRead"
  /\ promises[calls[c].await].st = "fulfilled"
  /\ calls'[c] # calls[c]

C20_EdgesSymmetric ==
  /\ [](initiators = Reversed(dependencies))
  /\ [][\A c \in Calls :
          ReadDownloaded(c) =>
            /\ calls[c].reading \in DOMAIN transpiledModules'
            /\ <<calls[c].from, calls[c].reading>> \in dependencies'
            /\ <<calls[c].reading, calls[c].from>> \in initiators']_vars

\* A call read a module of the graph and a module that it had to download: both
\* edges of both reads are there.
C20_Witness ==
  \E c \in Calls, p \in DOMAIN transpiledModules :
    /\ calls[c].pc = "done"
    /\ p # calls[c].reading
    /\ {<<calls[c].from, p>>, <<calls[c].from, calls[c].reading>>} \subseteq dependencies
    /\ {<<p, calls[c].from>>, <<calls[c].reading, calls[c].from>>} \subseteq initiators

(***************************************************************************)
(* C21: a readFile of a path that is neither a module of the graph nor in  *)
(* the metadata set calls back with ENOENT for that candidate, without a   *)
(* call of getDependencyVersion and without a download, and the resolver   *)
(* goes on with the candidates that remain. The resolution that            *)
(* getDependencyVersion starts has an empty metadata set, so it ends       *)
(* without a version lookup or a download of its own: the recursion        *)
(* resolvePath -> readFile -> getDependencyVersion -> resolvePath stops    *)
(* there.                                                                  *)
(***************************************************************************)
NextCandidate == Head(rs.dirs) \o <<"package.json">>

\* The step is a readFile call for a path that is in neither.
ReadsAbsentPath ==
  /\ rs.pc = "walk"
  /\ rs' # rs
  /\ NextCandidate \notin DOMAIN transpiledModules
  /\ NextCandidate \notin rs.meta

\* The resolution inside the getDependencyVersion that a read waits for.
NestedResolution ==
  resolvePath(<<rs.depName, "package.json">>, rs.from, defaultExtensions,
              transpiledModules, {}, {}, "")

C21_AbsentPathIsENOENT ==
  /\ [](rs.pc = "getVersion" =>
          /\ rs.p \in rs.meta
          /\ NestedResolution.st \in {"found", "miss"})
  /\ [][ReadsAbsentPath =>
          /\ rs'.callbacks = Append(rs.callbacks, Callback(NextCandidate, "ENOENT", TextCode))
          /\ rs'.steps = rs.steps
          /\ rs'.pc \in {"walk", "idle"}
          /\ rs'.dirs = Tail(rs.dirs)
          /\ UNCHANGED <<graphVars, cacheVars>>]_vars

\* A read of an absent path called back with ENOENT and the resolver has
\* candidates left; nothing was asked of the network.
C21_Witness ==
  /\ rs.pc = "walk"
  /\ rs.outcome = "enoent"
  /\ rs.p \notin DOMAIN transpiledModules
  /\ rs.p \notin rs.meta
  /\ rs.callbacks = <<Callback(rs.p, "ENOENT", TextCode)>>
  /\ rs.dirs # <<>>
  /\ promises = <<>>

(***************************************************************************)
(* C22: a readFile of a path that is not in the graph but is in the        *)
(* metadata set resolves the version of the path's dependency, downloads   *)
(* the file through the Content Cache, registers the module in the graph,  *)
(* records the edge and calls back with the code, in this order; after it  *)
(* the path is a module of the graph, and a later read of the path is      *)
(* served from the graph without a download.                               *)
(***************************************************************************)
LastCallback == rs.callbacks[Len(rs.callbacks)]

\* The step is a readFile call for a module of the graph.
ReadsGraphModule ==
  /\ rs.pc = "walk"
  /\ rs' # rs
  /\ NextCandidate \in DOMAIN transpiledModules

C22_MetadataReadDownloadsThenRegisters ==
  /\ [](rs.pc = "awaitDownload" =>
          /\ rs.steps = <<"getDependencyVersion", "downloadDependency">>
          /\ rs.p \in rs.meta
          /\ rs.p \notin DOMAIN transpiledModules
          /\ \E id \in DOMAIN packages : packages[id] = rs.await
          /\ promises[rs.await].path = rs.p)
  /\ [](rs.outcome = "downloaded" =>
          /\ rs.steps = <<"getDependencyVersion", "downloadDependency",
                          "addModule", "addEdge", "callback">>
          /\ rs.p \in DOMAIN transpiledModules
          /\ LastCallback = Callback(rs.p, "", promises[rs.await].value.code)
          /\ transpiledModules[rs.p] = promises[rs.await].value.code
          /\ <<rs.from, rs.p>> \in dependencies
          /\ <<rs.p, rs.from>> \in initiators)
  /\ [][ReadsGraphModule =>
          /\ rs'.outcome = "graph"
          /\ rs'.callbacks = Append(rs.callbacks,
                                    Callback(NextCandidate, "", transpiledModules[NextCandidate]))
          /\ UNCHANGED <<transpiledModules, cacheVars>>]_vars
  /\ [][DOMAIN transpiledModules \subseteq DOMAIN transpiledModules']_vars

\* The first resolution downloaded the package.json of pkg; the second one read
\* it from the graph, and the one download is all the network saw.
C22_Witness ==
  /\ rs.walks = 2
  /\ rs.outcome = "graph"
  /\ rs.p = PkgJson
  /\ PkgJson \notin DOMAIN ReadModules
  /\ Len(promises) = 1
  /\ promises[1].st = "fulfilled"
  /\ promises[1].path = PkgJson

(***************************************************************************)
(* C26: a readFile of a metadata-only path that fails, because no version  *)
(* is resolved or because the download fails, gives the callback the       *)
(* original lookup error, once. As claimed: the module graph is as it was  *)
(* when the read began (no module registered, no dependency or initiator   *)
(* edge added). As the code has it: no module is registered and no edge    *)
(* to or from the path is added; the modules of the graph that             *)
(* getDependencyVersion read on the way have their edges to the requesting *)
(* module.                                                                 *)
(***************************************************************************)
CallbacksFor(p) == { i \in DOMAIN rs.callbacks : rs.callbacks[i].path = p }

OriginalErrorOnce ==
  /\ Cardinality(CallbacksFor(rs.p)) = 1
  /\ LastCallback = Callback(rs.p, "original", TextCode)

\* The claim as stated.
C26_FailedReadLeavesGraph ==
  rs.outcome = "failed" =>
    /\ transpiledModules = rs.snap.G
    /\ dependencies = rs.snap.dependencies
    /\ initiators = rs.snap.initiators
    /\ OriginalErrorOnce

\* The claim as the code has it.
C26_FailedReadRegistersNothing ==
  rs.outcome = "failed" =>
    /\ transpiledModules = rs.snap.G
    /\ rs.snap.dependencies \subseteq dependencies
    /\ rs.snap.initiators \subseteq initiators
    /\ \A e \in dependencies \ rs.snap.dependencies :
         e[1] = rs.from /\ e[2] \in DOMAIN rs.snap.G
    /\ \A e \in initiators \ rs.snap.initiators :
         e[2] = rs.from /\ e[1] \in DOMAIN rs.snap.G
    /\ \A e \in dependencies \cup initiators : rs.p \notin {e[1], e[2]}
    /\ OriginalErrorOnce

\* The download of a metadata-only package.json failed on both backends: the
\* callback got the error, and the graph has the edge to the package.json that
\* getDependencyVersion read.
C26_Witness ==
  /\ rs.outcome = "failed"
  /\ rs.p = PkgJson
  /\ rs.await \in DOMAIN promises
  /\ promises[rs.await].st = "rejected"
  /\ Len(promises[rs.await].sent) = 2
  /\ dependencies # rs.snap.dependencies
  /\ OriginalErrorOnce

(***************************************************************************)
(* C23: every metadata document that fetchModule normalizes is normalized  *)
(* with the normalizer of the backend that produced the document, under    *)
(* any interleaving of calls, also when calls share a Metadata Cache key   *)
(* after a fallback and when a version has the alias form.                 *)
(***************************************************************************)
\* The key under which call c stores its PathSet.
NormalizedCacheKey(c) ==
  calls[c].dependencyName \o
    PathStr(IF calls[c].packageJSONPath # <<>> THEN pathDirname(calls[c].packageJSONPath)
            ELSE pathJoin(<<"node_modules">>, <<calls[c].dependencyName>>))

\* The step resumes call c with its metadata document, and no PathSet is cached
\* for it: the document is normalized.
Normalizes(c) ==
  /\ calls[c].pc \in {"awaitMeta", "awaitMetaFallback"}
  /\ promises[calls[c].await].st = "fulfilled"
  /\ calls'[c] # calls[c]
  /\ NormalizedCacheKey(c) \notin DOMAIN normalizedMetas

C23_NormalizerOfProducingBackend ==
  [][\A c \in Calls :
       Normalizes(c) =>
         calls'[c].normalizeFunction = normalizeMetaOf(promises[calls[c].await].protocol)]_vars

(***************************************************************************)
(* C24: under any interleaving of fetchModule calls no merge into the      *)
(* combined index is lost: once a call has passed its merge step, every    *)
(* path of its PathSet is in the index and stays there while other calls   *)
(* merge theirs.                                                           *)
(***************************************************************************)
C24_NoMergeLost ==
  /\ [](\A c \in Calls : PassedMeta(c) => calls[c].meta \subseteq combinedMetas)
  /\ [](\A k \in DOMAIN normalizedMetas : normalizedMetas[k] \subseteq combinedMetas)
  /\ [][combinedMetas \subseteq combinedMetas']_vars

\* Two calls have merged PathSets with no path in common, and the index has both.
C24_Witness ==
  \E c, d \in Calls :
    /\ PassedMeta(c)
    /\ PassedMeta(d)
    /\ calls[c].meta # {}
    /\ calls[d].meta # {}
    /\ calls[c].meta \cap calls[d].meta = {}
    /\ (calls[c].meta \cup calls[d].meta) \subseteq combinedMetas

(***************************************************************************)
(* C25: if every request eventually gets a response, every fetchModule     *)
(* call eventually settles: it returns a file or a stub, or it fails with  *)
(* DependencyNotFound, a resolution miss or a network failure; no call     *)
(* waits forever on a cached promise. Stated so that a finite run refutes  *)
(* it: a call that has begun has settled in one of these ways, or its next *)
(* step is ready, or it waits for a promise whose request is outstanding.  *)
(***************************************************************************)
Began(c) == calls[c].pc # "idle"

\* The failures the claim lists; the lookup error that the resolver hands on
\* after a failed read counts as a resolution miss.
ListedFailures == {"DependencyNotFound", "ResolutionMiss", "ReadError", "NetworkFailure"}

SettledAsListed(c) ==
  \/ calls[c].pc = "done"
  \/ calls[c].pc = "failed" /\ calls[c].error \in ListedFailures

\* The promise is pending with a request that the network has yet to answer, or
\* it waits for such a promise or for one that has settled.
RECURSIVE Outstanding(_)
Outstanding(p) ==
  /\ p \in DOMAIN promises
  /\ promises[p].st = "pending"
  /\ \/ promises[p].stage \in {"fetch", "sha", "primary", "fallback"}
     \/ /\ promises[p].stage = "pkgjson"
        /\ promises[p].wait \in DOMAIN promises
        /\ promises[promises[p].wait].st # "pending" \/ Outstanding(promises[p].wait)

CanGoOn(c) ==
  \/ calls[c].pc = "getMeta"
  \/ /\ calls[c].pc \in {"awaitMeta", "awaitMetaFallback", "awaitRead", "awaitFile"}
     /\ calls[c].await \in DOMAIN promises
     /\ promises[calls[c].await].st # "pending" \/ Outstanding(calls[c].await)

C25_EveryCallSettlesAsListed ==
  \A c \in Calls : Began(c) => (SettledAsListed(c) \/ CanGoOn(c))

====
